---- MODULE Spec2Model ----
(***************************************************************************)
(* Model of the household-budget persistence layer: the Dexie database     *)
(* (src/src/lib/database.ts), the hooks over it (src/unnamed/part_001,     *)
(* the useDatabase module) and the category form                           *)
(* (src/src/components/categories/CategoryForm.tsx).                       *)
(*                                                                         *)
(* Conventions.                                                            *)
(*  - A JavaScript string is a sequence of UTF-16 code units (naturals).   *)
(*  - An optional property is a sequence of length 0 (undefined) or 1.     *)
(*  - A table is a function from the primary keys present to the records.  *)
(*  - An instant (new Date().toISOString()) is an integer day count;       *)
(*    ISO-8601 UTC strings of one width compare as their instants do.      *)
(*  - where('deletedAt').equals(undefined) is read as the code intends it: *)
(*    the records that carry no deletedAt.                                 *)
(***************************************************************************)
EXTENDS Integers, Sequences, FiniteSets, TLC

VARIABLES
    transactions,   \* db.transactions : id -> Transaction
    categories,     \* db.categories   : id -> Category
    settings,       \* db.settings     : id -> Settings
    budgets,        \* db.budgets      : id -> Budget
    actionLogs,     \* db.actionLogs, in insertion order
    logSerial,      \* number of ActionLog ids handed out so far
    now,            \* the wall clock, in days
    ui,             \* Dashboard state: the FilterOptions and SortOptions in force
    file,           \* the snapshot exportData returned last, if any
    fault,          \* how the actionLogs store fails, and whether the last caller saw a failure
    pending,        \* the calls in flight, each with the step it has reached
    steps,          \* number of store operations performed
    last            \* the operation that ran last, its arguments and pre-state

vars == <<transactions, categories, settings, budgets, actionLogs, logSerial,
          now, ui, file, fault, pending, steps, last>>

----------------------------------------------------------------------------
(* Bounds of the model *)

MaxSteps == 4
MaxNow == 62

(* Program constants *)

MaxLogs == 500
RetentionDays == 30
MaxNameLength == 20

----------------------------------------------------------------------------
(* Optional values and strings *)

None == <<>>
Some(x) == <<x>>
IsSome(o) == o # <<>>
Get(o) == o[1]

Min2(a, b) == IF a <= b THEN a ELSE b

\* String.prototype.toLowerCase on one code unit (ASCII letters; the other
\* code units used here have no case).
LowerUnit(c) == IF c >= 65 /\ c <= 90 THEN c + 32 ELSE c

toLowerCase(s) == [i \in 1..Len(s) |-> LowerUnit(s[i])]

\* String.prototype.includes
includes(s, sub) ==
    \E i \in 0..(Len(s) - Len(sub)) :
        \A j \in 1..Len(sub) : s[i + j] = sub[j]

\* a < b on strings: lexicographic on code units, a proper prefix is smaller
StrLt(a, b) ==
    \E k \in 1..(Min2(Len(a), Len(b)) + 1) :
        /\ \A j \in 1..(k - 1) : a[j] = b[j]
        /\ \/ k = Len(a) + 1 /\ k <= Len(b)
           \/ k <= Len(a) /\ k <= Len(b) /\ a[k] < b[k]

StrLe(a, b) == a = b \/ StrLt(a, b)

IsSpace(c) == c = 32

\* String.prototype.trim
RECURSIVE TrimLeft(_)
TrimLeft(s) == IF s # <<>> /\ IsSpace(Head(s)) THEN TrimLeft(Tail(s)) ELSE s

RECURSIVE TrimRight(_)
TrimRight(s) ==
    IF s # <<>> /\ IsSpace(s[Len(s)]) THEN TrimRight(SubSeq(s, 1, Len(s) - 1)) ELSE s

trim(s) == TrimRight(TrimLeft(s))

\* String(n).padStart(w, '0') for n >= 0
RECURSIVE Digits(_)
Digits(n) == IF n < 10 THEN <<48 + n>> ELSE Digits(n \div 10) \o <<48 + (n % 10)>>

RECURSIVE padStart(_, _)
padStart(s, w) == IF Len(s) >= w THEN s ELSE padStart(<<48>> \o s, w)

\* 'YYYY-MM-DD', the value of an <input type="date">
IsoDate(y, m, d) ==
    padStart(Digits(y), 4) \o <<45>> \o padStart(Digits(m), 2) \o <<45>> \o padStart(Digits(d), 2)

\* 'YYYY-MM'
getCurrentMonth(y, m) == padStart(Digits(y), 4) \o <<45>> \o padStart(Digits(m), 2)

----------------------------------------------------------------------------
(* Records, tables and primary keys *)

\* crypto.randomUUID() values, listed in key (string) order
TxIdOrder == <<"t1", "t2", "t3">>
CatIdOrder ==
    <<"c0", "c1", "c2", "c3",
      "s01", "s02", "s03", "s04", "s05", "s06", "s07",
      "s08", "s09", "s10", "s11", "s12", "s13", "s14">>
\* The ids createTransaction draws
TxIds == {TxIdOrder[i] : i \in 1..2}
CatIds == {CatIdOrder[i] : i \in DOMAIN CatIdOrder}

KeyRank(order, id) == CHOOSE i \in DOMAIN order : order[i] = id

EmptyTable == <<>>

Keys(table) == DOMAIN table

\* The elements of the finite set S as a sequence, by ascending key; key is a
\* function on S with distinct integer values
RECURSIVE OrderBy(_, _)
OrderBy(S, key) ==
    IF S = {} THEN <<>>
    ELSE LET m == CHOOSE x \in S : \A y \in S : key[x] <= key[y]
         IN  <<m>> \o OrderBy(S \ {m}, key)

\* Object spread / Dexie's application of a changes object to a record
Modify(obj, changes) ==
    [f \in (DOMAIN obj) \cup (DOMAIN changes) |->
        IF f \in DOMAIN changes THEN changes[f] ELSE obj[f]]

\* The properties of `changes` whose value differs from the record's: the
\* `modifications` an updating hook receives
Diff(obj, changes) ==
    [f \in {g \in DOMAIN changes : g \notin DOMAIN obj \/ obj[g] # changes[g]} |->
        changes[f]]

Put(table, obj) ==
    [k \in Keys(table) \cup {obj.id} |-> IF k = obj.id THEN obj ELSE table[k]]

\* Mutant: a delete that leaves the records in the table
RemoveNothing(table, ids) == table

Remove(table, ids) == [k \in Keys(table) \ ids |-> table[k]]

----------------------------------------------------------------------------
(* Audit log: Database.logAction and the table hooks *)

\* What a hook hands to logAction
Event(action, entityType, entityId, data) ==
    [action |-> action, entityType |-> entityType, entityId |-> entityId, data |-> data]

\* database.ts:54-61
NewLog(serial, ev, ts) ==
    [id |-> serial + 1, action |-> ev.action, entityType |-> ev.entityType,
     entityId |-> ev.entityId, data |-> ev.data, timestamp |-> ts]

LogIds(log) == {log[i].id : i \in DOMAIN log}

\* Mutant: orderBy('timestamp').reverse().limit(k), the k newest entries
NewestIds(log, k) ==
    LET idx == DOMAIN log
        ts(i) == log[i].timestamp
        t == CHOOSE i \in idx :
                 /\ Cardinality({j \in idx : ts(j) > ts(i)}) < k
                 /\ Cardinality({j \in idx : ts(j) >= ts(i)}) >= k
        above == {j \in idx : ts(j) > ts(t)}
        ties == {j \in idx : ts(j) = ts(t)}
        r == k - Cardinality(above)
    IN  {{log[j].id : j \in above \cup T} : T \in {U \in SUBSET ties : Cardinality(U) = r}}

\* orderBy('timestamp').limit(k).toArray() mapped to ids: entries of equal
\* timestamp come in primary-key order, and the keys are random UUIDs, so any
\* choice among the entries that tie at the k-th timestamp is possible.
OldestIds(log, k) ==
    LET idx == DOMAIN log
        ts(i) == log[i].timestamp
        t == CHOOSE i \in idx :
                 /\ Cardinality({j \in idx : ts(j) < ts(i)}) < k
                 /\ Cardinality({j \in idx : ts(j) <= ts(i)}) >= k
        below == {j \in idx : ts(j) < ts(t)}
        ties == {j \in idx : ts(j) = ts(t)}
        r == k - Cardinality(below)
    IN  {{log[j].id : j \in below \cup T} : T \in {U \in SUBSET ties : Cardinality(U) = r}}

bulkDelete(log, ids) == SelectSeq(log, LAMBDA e : e.id \notin ids)

\* Mutant: the trim starts one entry too late
TrimLogsAboveCapPlusOne(log) ==
    LET count == Len(log)
    IN  IF count > MaxLogs + 1
        THEN {bulkDelete(log, ids) : ids \in OldestIds(log, count - MaxLogs)}
        ELSE {log}

\* database.ts:63-75, run to completion: the logs that can result
TrimLogs(log) ==
    LET count == Len(log)
    IN  IF count > MaxLogs
        THEN {bulkDelete(log, ids) : ids \in OldestIds(log, count - MaxLogs)}
        ELSE {log}

logAction(log, serial, ev, ts) == TrimLogs(Append(log, NewLog(serial, ev, ts)))

\* The hooks of one table operation fire in order, one logAction each
RECURSIVE LogAll(_, _, _, _)
LogAll(log, serial, evs, ts) ==
    IF evs = <<>> THEN {log}
    ELSE UNION {LogAll(l, serial + 1, Tail(evs), ts) : l \in logAction(log, serial, Head(evs), ts)}

\* The ways the actionLogs store can fail under logAction: not at all, on the
\* add (database.ts:63), or on the count and trim after it (database.ts:66-74)
FaultModes == {"ok", "addFails", "trimFails"}

NoFault == [mode |-> "ok", raised |-> FALSE]

\* database.ts:48-76 when the store fails: a rejected add leaves the log as it
\* was, a rejected count or bulkDelete leaves the new entry and trims nothing
logActionUnder(mode, log, serial, ev, ts) ==
    IF mode = "addFails" THEN {log}
    ELSE IF mode = "trimFails" THEN {Append(log, NewLog(serial, ev, ts))}
    ELSE logAction(log, serial, ev, ts)

RECURSIVE LogAllUnder(_, _, _, _, _)
LogAllUnder(mode, log, serial, evs, ts) ==
    IF evs = <<>> THEN {log}
    ELSE UNION {LogAllUnder(mode, l, serial + 1, Tail(evs), ts) :
                   l \in logActionUnder(mode, log, serial, Head(evs), ts)}

\* How the promise logAction returns settles
LogOutcome(mode) == IF mode = "ok" THEN "resolved" ELSE "rejected"

\* Mutant: the caller awaits logAction
CallerSeesAwaited(outcome) == outcome

\* database.ts:23-45, 132: `this.logAction(...)` is a call of an async function
\* whose promise is dropped; the caller goes on as after a resolved call
CallerSees(outcome) == "resolved"

\* Table.add with the 'creating' hook (database.ts:23-25, 35-37)
AddEvents(entityType, obj) == <<Event("create", entityType, obj.id, obj)>>

\* Table.update with the 'updating' hook (database.ts:27-29, 39-41): a missing
\* key or an update that changes nothing writes nothing and fires no hook
Updates(table, id, changes) ==
    id \in Keys(table) /\ DOMAIN Diff(table[id], changes) # {}

UpdateTable(table, id, changes) ==
    IF Updates(table, id, changes) THEN Put(table, Modify(table[id], changes)) ELSE table

\* Mutant: the hook hands over the record as updated
UpdateEventsWithUpdatedRecord(entityType, table, id, changes) ==
    IF Updates(table, id, changes)
    THEN <<Event("update", entityType, id,
                 [modifications |-> Diff(table[id], changes),
                  original |-> Modify(table[id], changes)])>>
    ELSE <<>>

UpdateEvents(entityType, table, id, changes) ==
    IF Updates(table, id, changes)
    THEN <<Event("update", entityType, id,
                 [modifications |-> Diff(table[id], changes), original |-> table[id]])>>
    ELSE <<>>

\* delete with the 'deleting' hook (database.ts:31-33, 43-45), for the keys
\* in the sequence `ids`
DeleteEvents(entityType, table, ids) ==
    [i \in DOMAIN ids |-> Event("delete", entityType, ids[i], table[ids[i]])]

----------------------------------------------------------------------------
(* Transactions: useDatabase (part_001:207-228) and database.ts:117-144 *)

\* part_001:207-217 with the record a submitted form passes (part_004:114-121)
NewTransaction(id, input, ts) ==
    [id |-> id, amount |-> input.amount, date |-> input.date,
     categoryId |-> input.categoryId, memo |-> input.memo, type |-> input.type,
     receiptImage |-> None, createdAt |-> ts, updatedAt |-> ts, deletedAt |-> None]

\* database.ts:120-123
SoftDeleteChanges(ts) == [deletedAt |-> Some(ts), updatedAt |-> ts]

\* Mutant: the restore leaves deletedAt in place
RestoreKeepsDeletedAt(ts) == [updatedAt |-> ts]

\* database.ts:128-131
RestoreChanges(ts) == [deletedAt |-> None, updatedAt |-> ts]

\* Mutant: the restore logged as an update
RestoreEventAsUpdate(id) == Event("update", "transaction", id, [restored |-> TRUE])

\* database.ts:132
RestoreEvent(id) == Event("restore", "transaction", id, [restored |-> TRUE])

\* database.ts:136-138
CutoffDate(ts) == ts - RetentionDays

\* Mutant: belowOrEqual(cutoffDate) in place of below(cutoffDate)
ExpiredIdsBelowOrEqual(txs, ts) ==
    {id \in Keys(txs) : IsSome(txs[id].deletedAt) /\ Get(txs[id].deletedAt) <= ts - RetentionDays}

\* database.ts:140-143: where('deletedAt').below(cutoffDate); only records that
\* carry a deletedAt are in the index
ExpiredIds(txs, ts) ==
    {id \in Keys(txs) : IsSome(txs[id].deletedAt) /\ Get(txs[id].deletedAt) < CutoffDate(ts)}

\* The index order of the expired records: by deletedAt, then by primary key
ExpiredOrder(txs, ts) ==
    OrderBy(ExpiredIds(txs, ts),
            [id \in ExpiredIds(txs, ts) |->
                Get(txs[id].deletedAt) * (Len(TxIdOrder) + 1) + KeyRank(TxIdOrder, id)])

----------------------------------------------------------------------------
(* Queries: useTransactions and useMonthlyStats (part_001:8-82, 119-145) *)

NoFilters ==
    [dateFrom |-> None, dateTo |-> None, categoryIds |-> None, amountMin |-> None,
     amountMax |-> None, keyword |-> None, type |-> None]

\* Truthiness of an optional string, array or number
TruthyStr(o) == IsSome(o) /\ Get(o) # <<>>
TruthyNum(o) == IsSome(o) /\ Get(o) # 0

\* part_001:14-18
DateFilter(f, t) ==
    (TruthyStr(f.dateFrom) \/ TruthyStr(f.dateTo)) =>
        LET from == IF TruthyStr(f.dateFrom) THEN Get(f.dateFrom) ELSE IsoDate(0, 1, 1)
            to == IF TruthyStr(f.dateTo) THEN Get(f.dateTo) ELSE IsoDate(9999, 12, 31)
        IN  StrLe(from, t.date) /\ StrLe(t.date, to)

\* part_001:20-22
CategoryFilter(f, t) ==
    (IsSome(f.categoryIds) /\ Len(Get(f.categoryIds)) > 0) =>
        \E i \in DOMAIN Get(f.categoryIds) : Get(f.categoryIds)[i] = t.categoryId

\* part_001:24-28. `filters.amountMax || Number.MAX_SAFE_INTEGER`: with the
\* fallback in force the upper test holds of every amount, 2^53 - 1 being the
\* largest integer amount a record can carry.
AmountFilter(f, t) ==
    (IsSome(f.amountMin) \/ IsSome(f.amountMax)) =>
        LET min == IF TruthyNum(f.amountMin) THEN Get(f.amountMin) ELSE 0
        IN  /\ t.amount >= min
            /\ TruthyNum(f.amountMax) => t.amount <= Get(f.amountMax)

\* part_001:30-35
KeywordFilter(f, t) ==
    TruthyStr(f.keyword) =>
        LET keyword == toLowerCase(Get(f.keyword))
        IN  IsSome(t.memo) /\ includes(toLowerCase(Get(t.memo)), keyword)

\* part_001:37-39
TypeFilter(f, t) == IsSome(f.type) => t.type = Get(f.type)

\* part_001:10
NotDeleted(t) == t.deletedAt = None

\* part_001:10-42: the ids of the records query.toArray() yields, in key order
FilteredIds(txs, f) ==
    LET S == {id \in Keys(txs) :
                /\ NotDeleted(txs[id])
                /\ DateFilter(f, txs[id])
                /\ CategoryFilter(f, txs[id])
                /\ AmountFilter(f, txs[id])
                /\ KeywordFilter(f, txs[id])
                /\ TypeFilter(f, txs[id])}
    IN  OrderBy(S, [id \in S |-> KeyRank(TxIdOrder, id)])

\* The sort key of part_001:49-66 as a number or string, and its comparison
SortKey(t, field) ==
    CASE field = "date" -> t.date
      [] field = "amount" -> t.amount
      [] field = "createdAt" -> t.createdAt
      [] field = "category" -> t.categoryId

\* aValue < bValue for the keys of one field: numbers, ISO dates (strings) or
\* category ids (strings, compared through their key order)
KeyLt(field, a, b) ==
    CASE field = "date" -> StrLt(a, b)
      [] field = "category" -> KeyRank(CatIdOrder, a) < KeyRank(CatIdOrder, b)
      [] OTHER -> a < b

\* Mutant: the comparison without the direction
CompareAscending(sort, a, b) ==
    LET aValue == SortKey(a, sort.field)
        bValue == SortKey(b, sort.field)
    IN  IF KeyLt(sort.field, aValue, bValue) THEN 0 - 1
        ELSE IF KeyLt(sort.field, bValue, aValue) THEN 1
        ELSE 0

\* part_001:46-74, as -1, 0 or 1
Compare(sort, a, b) ==
    LET aValue == SortKey(a, sort.field)
        bValue == SortKey(b, sort.field)
    IN  IF KeyLt(sort.field, aValue, bValue) THEN (IF sort.direction = "asc" THEN 0 - 1 ELSE 1)
        ELSE IF KeyLt(sort.field, bValue, aValue) THEN (IF sort.direction = "asc" THEN 1 ELSE 0 - 1)
        ELSE 0

\* part_001:77: new Date(b.date).getTime() - new Date(a.date).getTime(), by sign
DefaultCompare(a, b) ==
    IF StrLt(b.date, a.date) THEN 0 - 1 ELSE IF StrLt(a.date, b.date) THEN 1 ELSE 0

\* The comparator results.sort is given: part_001:46-74 with sort, 77 without
Comparator(sort, a, b) ==
    IF IsSome(sort) THEN Compare(Get(sort), a, b) ELSE DefaultCompare(a, b)

\* Array.prototype.sort under that comparator: stable
StableSort(seq, sort) ==
    LET n == Len(seq)
        before(i, j) ==
            \/ Comparator(sort, seq[i], seq[j]) < 0
            \/ Comparator(sort, seq[i], seq[j]) = 0 /\ i < j
        pos(i) == 1 + Cardinality({j \in 1..n : j # i /\ before(j, i)})
    IN  [p \in 1..n |-> seq[CHOOSE i \in 1..n : pos(i) = p]]

\* part_001:8-82
useTransactions(txs, f, sort) ==
    LET ids == FilteredIds(txs, f)
        results == [i \in DOMAIN ids |-> txs[ids[i]]]
    IN  StableSort(results, sort)

ResultIds(results) == {results[i].id : i \in DOMAIN results}

RECURSIVE SumAmounts(_)
SumAmounts(seq) == IF seq = <<>> THEN 0 ELSE Head(seq).amount + SumAmounts(Tail(seq))

\* Mutant: the month's transactions without the deletedAt test
MonthTransactionsWithDeleted(txs, month) ==
    LET startDate == month \o <<45, 48, 49>>
        endDate == month \o <<45, 51, 49>>
        S == {id \in Keys(txs) :
                StrLe(startDate, txs[id].date) /\ StrLe(txs[id].date, endDate)}
        ids == OrderBy(S, [id \in S |-> KeyRank(TxIdOrder, id)])
    IN  [i \in DOMAIN ids |-> txs[ids[i]]]

\* part_001:121-128
MonthTransactions(txs, month) ==
    LET startDate == month \o <<45, 48, 49>>
        endDate == month \o <<45, 51, 49>>
        S == {id \in Keys(txs) :
                /\ NotDeleted(txs[id])
                /\ StrLe(startDate, txs[id].date) /\ StrLe(txs[id].date, endDate)}
        ids == OrderBy(S, [id \in S |-> KeyRank(TxIdOrder, id)])
    IN  [i \in DOMAIN ids |-> txs[ids[i]]]

\* part_001:119-145
useMonthlyStats(txs, month) ==
    LET found == MonthTransactions(txs, month)
        income == SumAmounts(SelectSeq(found, LAMBDA t : t.type = "income"))
        expense == SumAmounts(SelectSeq(found, LAMBDA t : t.type = "expense"))
    IN  [income |-> income, expense |-> expense, balance |-> income - expense,
         transactionCount |-> Len(found)]

----------------------------------------------------------------------------
(* Inputs *)

Amounts == {1, 1000}
Dates == {IsoDate(2024, 2, 29), IsoDate(2024, 3, 1), IsoDate(2024, 3, 31)}
Memos == {None, Some(<<73, 99, 101, 100, 32, 84, 101, 97>>), Some(<<66, 117, 115>>)}  \* "Iced Tea", "Bus"
Types == {"expense", "income"}
TxCategoryIds == {"c1", "c2"}

TxInputs ==
    [amount : Amounts, date : Dates, categoryId : TxCategoryIds, memo : Memos, type : Types]

\* The inputs that differ in what the statistics read: amount, date and type
StatInputs == {input \in TxInputs : input.categoryId = "c1" /\ input.memo = None}

\* Inputs that differ in the type alone, where the other fields play no part
PlainInputs == {input \in StatInputs : input.amount = 1000 /\ input.date = IsoDate(2024, 3, 1)}

\* One input of each type
ExpenseInputs == {input \in PlainInputs : input.type = "expense"}
IncomeInputs == {input \in PlainInputs : input.type = "income"}

Months == {getCurrentMonth(2024, 2), getCurrentMonth(2024, 3)}

\* The values each property of the FilterOptions is drawn from
FilterValues ==
    [dateFrom |-> {None, Some(IsoDate(2024, 3, 1))},
     dateTo |-> {None, Some(IsoDate(2024, 3, 1))},
     categoryIds |-> {None, Some(<<"c1">>)},
     amountMin |-> {None, Some(0), Some(1000)},
     amountMax |-> {None, Some(0), Some(1)},
     keyword |-> {None, Some(<<116, 101, 97>>)},  \* "tea"
     type |-> {None, Some("income")}]

\* Dashboard: useState<SortOptions>({ field: 'date', direction: 'desc' })
DefaultSort == Some([field |-> "date", direction |-> "desc"])

\* The days the clock can jump by
TickDays == {29, 30, 31}

----------------------------------------------------------------------------
(* State *)

Store ==
    [transactions |-> transactions, categories |-> categories, settings |-> settings,
     budgets |-> budgets, actionLogs |-> actionLogs, logSerial |-> logSerial, now |-> now]

Ran(op, arg) == last' = [op |-> op, arg |-> arg, pre |-> Store]

InitEmpty ==
    /\ transactions = EmptyTable
    /\ categories = EmptyTable
    /\ settings = EmptyTable
    /\ budgets = EmptyTable
    /\ actionLogs = <<>>
    /\ logSerial = 0
    /\ now = 0
    /\ ui = [filters |-> NoFilters, sort |-> DefaultSort]
    /\ file = None
    /\ fault = NoFault
    /\ pending = <<>>
    /\ steps = 0
    /\ last = [op |-> "init", arg |-> <<>>, pre |-> <<>>]

\* One more store operation, with the hooks' log entries written. The hooks
\* and restoreTransaction call logAction without awaiting it, so what the
\* caller sees is what the calls it awaits gave.
Logged(evs) ==
    /\ steps < MaxSteps
    /\ steps' = steps + 1
    /\ actionLogs' \in LogAllUnder(fault.mode, actionLogs, logSerial, evs, now)
    /\ logSerial' = logSerial + Len(evs)
    /\ fault' = [fault EXCEPT !.raised =
                     \E i \in DOMAIN evs : CallerSees(LogOutcome(fault.mode)) = "rejected"]

----------------------------------------------------------------------------
(* Operations on transactions *)

\* useDatabase.createTransaction (part_001:207-217)
createTransaction(id, input) ==
    LET newTransaction == NewTransaction(id, input, now)
    IN  /\ id \notin Keys(transactions)
        /\ transactions' = Put(transactions, newTransaction)
        /\ Logged(AddEvents("transaction", newTransaction))
        /\ Ran("createTransaction", [id |-> id, input |-> input])
        /\ UNCHANGED <<categories, settings, budgets, now, ui, file, pending>>

\* useDatabase.deleteTransaction -> db.softDeleteTransaction (database.ts:117-125)
softDeleteTransaction(id) ==
    /\ transactions' = UpdateTable(transactions, id, SoftDeleteChanges(now))
    /\ Logged(UpdateEvents("transaction", transactions, id, SoftDeleteChanges(now)))
    /\ Ran("softDeleteTransaction", [id |-> id])
    /\ UNCHANGED <<categories, settings, budgets, now, ui, file, pending>>

\* db.restoreTransaction (database.ts:127-133)
restoreTransaction(id) ==
    /\ transactions' = UpdateTable(transactions, id, RestoreChanges(now))
    /\ Logged(UpdateEvents("transaction", transactions, id, RestoreChanges(now))
              \o <<RestoreEvent(id)>>)
    /\ Ran("restoreTransaction", [id |-> id])
    /\ UNCHANGED <<categories, settings, budgets, now, ui, file, pending>>

\* db.permanentlyDeleteOldTrash (database.ts:135-144)
permanentlyDeleteOldTrash ==
    /\ transactions' = Remove(transactions, ExpiredIds(transactions, now))
    /\ Logged(DeleteEvents("transaction", transactions, ExpiredOrder(transactions, now)))
    /\ Ran("permanentlyDeleteOldTrash", <<>>)
    /\ UNCHANGED <<categories, settings, budgets, now, ui, file, pending>>

\* Time passes
Tick(d) ==
    /\ now + d <= MaxNow
    /\ now' = now + d
    /\ UNCHANGED <<transactions, categories, settings, budgets, actionLogs, logSerial,
                   ui, file, fault, pending, steps, last>>

\* Dashboard.setFilters through TransactionFilters.onFiltersChange, one
\* property of the FilterOptions replaced (TransactionFilters.tsx:118, 162,
\* 173, 184); handleApplyFilters replaces several at once, which reaches the
\* same filters as replacing them one after the other.
setFilters(field, value) ==
    /\ ui' = [ui EXCEPT !.filters[field] = value]
    /\ UNCHANGED <<transactions, categories, settings, budgets, actionLogs, logSerial,
                   now, file, fault, pending, steps, last>>

CreateTransaction == \E id \in TxIds, input \in PlainInputs : createTransaction(id, input)
CreateStatTransaction == \E id \in TxIds, input \in StatInputs : createTransaction(id, input)
\* The lists offer the stored records
SoftDeleteTransaction == \E id \in Keys(transactions) : softDeleteTransaction(id)
RestoreTransaction == \E id \in Keys(transactions) : restoreTransaction(id)
Ticks == \E d \in TickDays : Tick(d)
SetFilters ==
    \E field \in DOMAIN FilterValues :
        \E value \in FilterValues[field] : setFilters(field, value)

NextTrash ==
    \/ CreateTransaction
    \/ SoftDeleteTransaction
    \/ RestoreTransaction
    \/ permanentlyDeleteOldTrash
    \/ Ticks

SpecTrash == InitEmpty /\ [][NextTrash]_vars

NextStats ==
    \/ CreateStatTransaction
    \/ SoftDeleteTransaction
    \/ RestoreTransaction

SpecStats == InitEmpty /\ [][NextStats]_vars

----------------------------------------------------------------------------
(* The list under filters: the store holds one or two records, created by   *)
(* createTransaction and possibly soft-deleted; the filters then change.    *)

\* The store after createTransaction(id1, first), createTransaction(id2, second)
\* when second is given, and softDeleteTransaction of those flagged
InitQuery ==
    \E id1 \in TxIds, first \in TxInputs, del1 \in BOOLEAN,
       second \in {None} \cup {Some(input) : input \in PlainInputs}, del2 \in BOOLEAN :
        LET id2 == CHOOSE id \in TxIds : id # id1
            t1 == NewTransaction(id1, first, 0)
            created1 == Put(EmptyTable, t1)
            created == IF IsSome(second)
                       THEN Put(created1, NewTransaction(id2, Get(second), 0))
                       ELSE created1
            deleted1 == IF del1 THEN UpdateTable(created, id1, SoftDeleteChanges(0)) ELSE created
            deleted == IF del2 THEN UpdateTable(deleted1, id2, SoftDeleteChanges(0)) ELSE deleted1
            evs == AddEvents("transaction", t1)
                   \o (IF IsSome(second)
                       THEN AddEvents("transaction", NewTransaction(id2, Get(second), 0))
                       ELSE <<>>)
                   \o (IF del1
                       THEN UpdateEvents("transaction", created, id1, SoftDeleteChanges(0))
                       ELSE <<>>)
                   \o (IF del2
                       THEN UpdateEvents("transaction", deleted1, id2, SoftDeleteChanges(0))
                       ELSE <<>>)
        IN  /\ (del2 => IsSome(second))
            /\ transactions = deleted
            /\ categories = EmptyTable
            /\ settings = EmptyTable
            /\ budgets = EmptyTable
            /\ actionLogs \in LogAll(<<>>, 0, evs, 0)
            /\ logSerial = Len(evs)
            /\ now = 0
            /\ ui = [filters |-> NoFilters, sort |-> DefaultSort]
            /\ file = None
            /\ fault = NoFault
            /\ pending = <<>>
            /\ steps = Len(evs)
            /\ last = [op |-> "init", arg |-> <<>>, pre |-> <<>>]

NextQuery == SetFilters

SpecQuery == InitQuery /\ [][NextQuery]_vars

----------------------------------------------------------------------------
(* Claims on the list and the statistics *)

\* What the list shows: useTransactions under the Dashboard's filters and sort
Listed == ResultIds(useTransactions(transactions, ui.filters, ui.sort))

\* listTransactions() without arguments
ListedAll == ResultIds(useTransactions(transactions, NoFilters, None))

\* t satisfies every filter the caller supplied a value for
Satisfies(t, f) ==
    /\ IsSome(f.dateFrom) => StrLe(Get(f.dateFrom), t.date)
    /\ IsSome(f.dateTo) => StrLe(t.date, Get(f.dateTo))
    /\ IsSome(f.categoryIds) =>
          t.categoryId \in {Get(f.categoryIds)[i] : i \in DOMAIN Get(f.categoryIds)}
    /\ IsSome(f.amountMin) => Get(f.amountMin) <= t.amount
    /\ IsSome(f.amountMax) => t.amount <= Get(f.amountMax)
    /\ IsSome(f.keyword) =>
          IsSome(t.memo) /\ includes(toLowerCase(Get(t.memo)), toLowerCase(Get(f.keyword)))
    /\ IsSome(f.type) => t.type = Get(f.type)

\* C1: a transaction is listed iff it is not soft-deleted and satisfies every
\* filter the caller supplied a value for (the value 0 of an amount bound
\* included), the filters combined with AND.
C1_ListedIffSatisfiesSuppliedFilters ==
    \A id \in Keys(transactions) :
        id \in Listed <=>
            (transactions[id].deletedAt = None /\ Satisfies(transactions[id], ui.filters))

\* The record the last operation was about, as it was before the operation
PreTx(id) == last.pre.transactions[id]

RanOnTx(op) == last.op = op /\ last.arg.id \in Keys(last.pre.transactions)

\* C2: after softDelete(id) of an active transaction, the unfiltered list does
\* not hold id while the record is still stored; after restore(id) of a
\* soft-deleted transaction that was not purged, the list holds id again.
C2_SoftDeleteHidesRestoreShows ==
    /\ (RanOnTx("softDeleteTransaction") /\ PreTx(last.arg.id).deletedAt = None) =>
          (last.arg.id \notin ListedAll /\ last.arg.id \in Keys(transactions))
    /\ (RanOnTx("restoreTransaction") /\ IsSome(PreTx(last.arg.id).deletedAt)) =>
          last.arg.id \in ListedAll

C2_Witness ==
    /\ RanOnTx("restoreTransaction")
    /\ IsSome(PreTx(last.arg.id).deletedAt)
    /\ \E i \in DOMAIN actionLogs :
          /\ actionLogs[i].action = "update" /\ actionLogs[i].entityId = last.arg.id
          /\ "deletedAt" \in DOMAIN actionLogs[i].data.modifications
          /\ IsSome(actionLogs[i].data.modifications.deletedAt)
    /\ last.arg.id \in ListedAll

\* C3: the purge removes exactly the transactions whose deletedAt is older
\* than now minus 30 days (one deleted 31 days ago goes, one deleted 29 days
\* ago stays); every other transaction stays and is unchanged.
C3_PurgeRemovesExactlyExpired ==
    last.op = "permanentlyDeleteOldTrash" =>
        /\ Keys(transactions) \subseteq Keys(last.pre.transactions)
        /\ \A id \in Keys(last.pre.transactions) :
              LET t == PreTx(id)
                  age == last.pre.now - Get(t.deletedAt)
              IN  /\ id \notin Keys(transactions) <=> (IsSome(t.deletedAt) /\ age > 30)
                  /\ id \in Keys(transactions) => transactions[id] = t
                  /\ (IsSome(t.deletedAt) /\ age = 31) => id \notin Keys(transactions)
                  /\ (IsSome(t.deletedAt) /\ age = 29) => id \in Keys(transactions)

C3_Witness ==
    /\ last.op = "permanentlyDeleteOldTrash"
    /\ \E id \in Keys(last.pre.transactions) :
          /\ IsSome(PreTx(id).deletedAt)
          /\ last.pre.now - Get(PreTx(id).deletedAt) = 31
          /\ id \notin Keys(transactions)
    /\ \E id \in Keys(transactions) : transactions[id].deletedAt = None

\* The calendar month of an ISO date: its 'YYYY-MM' part
MonthOf(date) == SubSeq(date, 1, 7)

RECURSIVE SumOf(_, _)
SumOf(txs, S) ==
    IF S = {} THEN 0
    ELSE LET id == CHOOSE x \in S : TRUE IN txs[id].amount + SumOf(txs, S \ {id})

\* The non-deleted transactions of one type dated in the month
Counted(txs, month, type) ==
    {id \in Keys(txs) :
        txs[id].deletedAt = None /\ MonthOf(txs[id].date) = month /\ txs[id].type = type}

\* C4: monthlyStats(month) gives income and expense as the sums of the amounts
\* of the non-deleted transactions of that type dated in the month, balance as
\* income - expense, and transactionCount as the number of those transactions.
C4_MonthlyStatsOverActiveOfMonth ==
    \A month \in Months :
        LET stats == useMonthlyStats(transactions, month)
            in == Counted(transactions, month, "income")
            ex == Counted(transactions, month, "expense")
        IN  /\ stats.income = SumOf(transactions, in)
            /\ stats.expense = SumOf(transactions, ex)
            /\ stats.balance = SumOf(transactions, in) - SumOf(transactions, ex)
            /\ stats.transactionCount = Cardinality(in \cup ex)

C4_Witness ==
    \E month \in Months :
        /\ useMonthlyStats(transactions, month).transactionCount = 1
        /\ useMonthlyStats(transactions, month).balance # 0
        /\ \E id \in Keys(transactions) :
              IsSome(transactions[id].deletedAt) /\ MonthOf(transactions[id].date) = month

----------------------------------------------------------------------------
(* Categories: CategoryForm (validateForm, handleSubmit), useDatabase       *)
(* (part_001:230-259) and Database.createSampleData                         *)

\* Number(s) of a string of decimal digits
RECURSIVE DigitsValue(_)
DigitsValue(s) ==
    IF s = <<>> THEN 0 ELSE DigitsValue(SubSeq(s, 1, Len(s) - 1)) * 10 + (s[Len(s)] - 48)

IsDigit(c) == c >= 48 /\ c <= 57

\* parseInt(s): leading blanks, a sign, the leading digits; None stands for NaN
parseInt(s) ==
    LET t == TrimLeft(s)
        signed == t # <<>> /\ (t[1] = 45 \/ t[1] = 43)
        body == IF signed THEN Tail(t) ELSE t
        n == CHOOSE k \in 0..Len(body) :
                 /\ \A j \in 1..k : IsDigit(body[j])
                 /\ k < Len(body) => ~IsDigit(body[k + 1])
        value == DigitsValue(SubSeq(body, 1, n))
    IN  IF n = 0 THEN None
        ELSE Some(IF signed /\ t[1] = 45 THEN 0 - value ELSE value)

\* useCategories(): db.categories.orderBy('order').toArray()
useCategories(cats) ==
    LET n == Len(CatIdOrder) + 1
    IN  OrderBy(Keys(cats),
                [id \in Keys(cats) |-> cats[id].order * n + KeyRank(CatIdOrder, id)])

\* Mutant: the names are compared as they are written
ExistingCategoryCaseSensitive(cats, edited, name) ==
    {id \in Keys(cats) :
        /\ (IsSome(edited) => id # Get(edited))
        /\ cats[id].name = trim(name)}

\* CategoryForm.tsx:88-91: a category other than the edited one whose name is
\* the trimmed input, ignoring case. `edited` is the category prop, if any.
ExistingCategory(cats, edited, name) ==
    {id \in Keys(cats) :
        /\ (IsSome(edited) => id # Get(edited))
        /\ toLowerCase(cats[id].name) = toLowerCase(trim(name))}

\* CategoryForm.tsx:81-95
NameError(cats, edited, name) ==
    IF trim(name) = <<>> THEN Some("required")
    ELSE IF Len(trim(name)) > MaxNameLength THEN Some("tooLong")
    ELSE IF ExistingCategory(cats, edited, name) # {} THEN Some("duplicate")
    ELSE None

\* CategoryForm.tsx:97-107
BudgetError(budget) ==
    IF budget = <<>> THEN None
    ELSE IF parseInt(budget) = None THEN Some("notANumber")
    ELSE IF Get(parseInt(budget)) < 0 THEN Some("negative")
    ELSE IF Get(parseInt(budget)) > 9999999 THEN Some("tooLarge")
    ELSE None

\* CategoryForm.tsx:78-111: newErrors
validateForm(cats, edited, form) ==
    [name |-> NameError(cats, edited, form.name), budget |-> BudgetError(form.budget)]

IsValid(errors) == errors.name = None /\ errors.budget = None

\* CategoryForm.tsx:123-130. `category?.order || ...`: an order of 0 is falsy
categoryData(cats, edited, form) ==
    [name |-> trim(form.name), icon |-> form.icon, color |-> form.color, type |-> form.type,
     budget |-> IF form.budget # <<>> THEN parseInt(form.budget) ELSE None,
     order |-> IF IsSome(edited) /\ cats[Get(edited)].order # 0
               THEN cats[Get(edited)].order
               ELSE Cardinality(Keys(cats)) + 1]

\* part_001:230-240
NewCategory(id, data, ts) == Modify(data, [id |-> id, createdAt |-> ts, updatedAt |-> ts])

\* part_001:243-246
CategoryChanges(data, ts) == Modify(data, [updatedAt |-> ts])

\* database.ts:96-104
sampleCategories ==
    <<[name |-> <<39135, 36027>>, icon |-> <<55356, 57213, 65039>>,          \* 食費
       color |-> <<35, 101, 102, 52, 52, 52, 52>>, type |-> "expense", order |-> 1],
      [name |-> <<20132, 36890, 36027>>, icon |-> <<55357, 56972>>,           \* 交通費
       color |-> <<35, 51, 98, 56, 50, 102, 54>>, type |-> "expense", order |-> 2],
      [name |-> <<20303, 23621, 36027>>, icon |-> <<55356, 57312>>,           \* 住居費
       color |-> <<35, 56, 98, 53, 99, 102, 54>>, type |-> "expense", order |-> 3],
      [name |-> <<20809, 29105, 36027>>, icon |-> <<55357, 56481>>,           \* 光熱費
       color |-> <<35, 102, 53, 57, 101, 48, 98>>, type |-> "expense", order |-> 4],
      [name |-> <<23087, 27005>>, icon |-> <<55356, 57262>>,                  \* 娯楽
       color |-> <<35, 49, 48, 98, 57, 56, 49>>, type |-> "expense", order |-> 5],
      [name |-> <<32102, 19982>>, icon |-> <<55357, 56496>>,                  \* 給与
       color |-> <<35, 48, 53, 57, 54, 54, 57>>, type |-> "income", order |-> 6],
      [name |-> <<21103, 26989>>, icon |-> <<55357, 56508>>,                  \* 副業
       color |-> <<35, 48, 100, 57, 52, 56, 56>>, type |-> "income", order |-> 7]>>

\* database.ts:107-112: the i-th sample under the id drawn for it; a sample
\* carries no budget
SampleCategory(i, id, ts) ==
    Modify(sampleCategories[i],
           [id |-> id, budget |-> None, createdAt |-> ts, updatedAt |-> ts])

\* The ids createSampleData draws, one run after the other
SampleIdBlocks ==
    <<<<"s01", "s02", "s03", "s04", "s05", "s06", "s07">>,
      <<"s08", "s09", "s10", "s11", "s12", "s13", "s14">>>>

\* The ids the category form draws
FormCatIds == <<"c1", "c2", "c3">>

----------------------------------------------------------------------------
(* Settings, export and import: database.ts:78-93, 160-207, part_001:261-266 *)

\* database.ts:81-90
defaultSettings(ts) ==
    [id |-> "main", currency |-> "JPY", weekStartsOn |-> 1, theme |-> "system",
     passcodeEnabled |-> FALSE, language |-> "ja", createdAt |-> ts, updatedAt |-> ts]

\* part_001:262-265
SettingsChanges(updates, ts) == Modify(updates, [updatedAt |-> ts])

\* Table.toArray(): the records in primary-key order
toArray(table, order) ==
    LET ids == OrderBy(Keys(table), [id \in Keys(table) |-> KeyRank(order, id)])
    IN  [i \in DOMAIN ids |-> table[ids[i]]]

\* Mutant: the snapshot leaves the soft-deleted transactions out
exportDataActiveOnly(txs, cats, sets, buds, ts) ==
    [version |-> 1, exportDate |-> ts,
     data |-> [transactions |-> SelectSeq(toArray(txs, TxIdOrder),
                                          LAMBDA t : t.deletedAt = None),
               categories |-> toArray(cats, CatIdOrder),
               settings |-> toArray(sets, <<"main">>),
               budgets |-> toArray(buds, <<>>)]]

\* Mutant: the snapshot leaves the categories out
exportDataWithoutCategories(txs, cats, sets, buds, ts) ==
    [version |-> 1, exportDate |-> ts,
     data |-> [transactions |-> toArray(txs, TxIdOrder),
               categories |-> <<>>,
               settings |-> toArray(sets, <<"main">>),
               budgets |-> toArray(buds, <<>>)]]

\* database.ts:160-178
exportData(txs, cats, sets, buds, ts) ==
    [version |-> 1, exportDate |-> ts,
     data |-> [transactions |-> toArray(txs, TxIdOrder),
               categories |-> toArray(cats, CatIdOrder),
               settings |-> toArray(sets, <<"main">>),
               budgets |-> toArray(buds, <<>>)]]

\* Table.bulkAdd(items) outside a transaction: the items whose key is free are
\* added in order, each firing the 'creating' hook; an item whose key is taken
\* is left out and makes the call reject once the others are stored.
RECURSIVE bulkAdd(_, _)
bulkAdd(table, items) ==
    IF items = <<>> THEN table
    ELSE IF Head(items).id \in Keys(table) THEN bulkAdd(table, Tail(items))
    ELSE bulkAdd(Put(table, Head(items)), Tail(items))

RECURSIVE BulkAddEvents(_, _, _)
BulkAddEvents(entityType, table, items) ==
    IF items = <<>> THEN <<>>
    ELSE IF Head(items).id \in Keys(table) THEN BulkAddEvents(entityType, table, Tail(items))
    ELSE AddEvents(entityType, Head(items))
         \o BulkAddEvents(entityType, Put(table, Head(items)), Tail(items))

BulkAddRejects(table, items) ==
    \E i \in DOMAIN items :
        \/ items[i].id \in Keys(table)
        \/ \E j \in 1..(i - 1) : items[j].id = items[i].id

\* Table.clear(): every record is deleted, the 'deleting' hook fired for each
ClearEvents(entityType, table, order) ==
    DeleteEvents(entityType, table,
                 OrderBy(Keys(table), [id \in Keys(table) |-> KeyRank(order, id)]))

----------------------------------------------------------------------------
(* Inputs of the category, settings and import operations *)

FormNames ==
    {<<70, 111, 111, 100>>,               \* "Food"
     <<32, 102, 111, 111, 100, 32>>,      \* " food "
     <<82, 101, 110, 116>>,               \* "Rent"
     <<>>,
     <<49, 50, 51, 52, 53, 54, 55, 56, 57, 48, 49, 50, 51, 52, 53, 54, 55, 56, 57, 48, 49>>}

FormBudgets ==
    {<<>>, <<49, 48, 48, 48>>, <<45, 49>>, <<97, 98, 99>>}   \* "", "1000", "-1", "abc"

\* CategoryForm.tsx: the form state, icon, colour and type left at their defaults
CategoryForms ==
    [name : FormNames, icon : {<<55357, 56496>>}, color : {<<35, 51, 98, 56, 50, 102, 54>>},
     type : {"expense"}, budget : FormBudgets]

\* The forms that differ in the case and padding of one name
NameForms ==
    {form \in CategoryForms :
        /\ form.name \in {<<70, 111, 111, 100>>, <<32, 102, 111, 111, 100, 32>>}
        /\ form.budget = <<>>}

\* The forms that carry two unrelated names
PlainForms ==
    {form \in CategoryForms :
        /\ form.name \in {<<70, 111, 111, 100>>, <<82, 101, 110, 116>>}
        /\ form.budget = <<>>}

SettingsUpdates == {[theme |-> "dark"], [currency |-> "USD"]}

ImportModes == {"overwrite", "merge"}

\* The categories the list is asked to delete: those made through the form
\* and the first sample of each run
DeleteTargets == {FormCatIds[i] : i \in DOMAIN FormCatIds}
                 \cup {SampleIdBlocks[i][1] : i \in DOMAIN SampleIdBlocks}

\* The category ids some record, log entry or snapshot has carried
UsedCatIds ==
    Keys(categories)
    \cup {actionLogs[i].entityId : i \in {j \in DOMAIN actionLogs :
                                             actionLogs[j].entityType = "category"}}
    \cup (IF IsSome(file)
          THEN {Get(file).data.categories[i].id : i \in DOMAIN Get(file).data.categories}
          ELSE {})

Unused(ids) == \A i \in DOMAIN ids : ids[i] \notin UsedCatIds

\* crypto.randomUUID() for the category form: an id never seen before
FreshCatId == FormCatIds[CHOOSE i \in DOMAIN FormCatIds :
                  /\ FormCatIds[i] \notin UsedCatIds
                  /\ \A j \in 1..(i - 1) : FormCatIds[j] \in UsedCatIds]

\* crypto.randomUUID() for createSampleData: seven ids never seen before
FreshSampleIds == SampleIdBlocks[CHOOSE i \in DOMAIN SampleIdBlocks :
                      /\ Unused(SampleIdBlocks[i])
                      /\ \A j \in 1..(i - 1) : ~Unused(SampleIdBlocks[j])]

----------------------------------------------------------------------------
(* Operations on categories *)

\* CategoryForm.handleSubmit (CategoryForm.tsx:113-147) with
\* useDatabase.createCategory / updateCategory (part_001:230-247). `edited` is
\* the id of the category prop, if any; `categories` is the list the form reads.
submitCategoryForm(edited, form) ==
    LET errors == validateForm(categories, edited, form)
        data == categoryData(categories, edited, form)
        changes == CategoryChanges(data, now)
    IN  /\ IsSome(edited) => Get(edited) \in Keys(categories)
        /\ IF ~IsValid(errors)
           THEN /\ UNCHANGED categories
                /\ Logged(<<>>)
           ELSE IF IsSome(edited)
           THEN /\ categories' = UpdateTable(categories, Get(edited), changes)
                /\ Logged(UpdateEvents("category", categories, Get(edited), changes))
           ELSE /\ \E i \in DOMAIN FormCatIds : FormCatIds[i] \notin UsedCatIds
                /\ categories' = Put(categories, NewCategory(FreshCatId, data, now))
                /\ Logged(AddEvents("category", NewCategory(FreshCatId, data, now)))
        /\ Ran("submitCategoryForm", [edited |-> edited, form |-> form, errors |-> errors])
        /\ UNCHANGED <<transactions, settings, budgets, now, ui, file, pending>>

\* Mutant: only the transactions of the category that are not soft-deleted
ActiveCategoryTransactions(txs, id) ==
    LET S == {t \in Keys(txs) : txs[t].categoryId = id /\ txs[t].deletedAt = None}
    IN  OrderBy(S, [t \in S |-> KeyRank(TxIdOrder, t)])

\* The transactions of a category, in the order of the categoryId index
CategoryTransactions(txs, id) ==
    LET S == {t \in Keys(txs) : txs[t].categoryId = id}
    IN  OrderBy(S, [t \in S |-> KeyRank(TxIdOrder, t)])

\* Collection.modify(changes) over the keys in `ids`, with the 'updating' hook
RECURSIVE ModifyAll(_, _, _)
ModifyAll(table, ids, changes) ==
    IF ids = <<>> THEN table
    ELSE ModifyAll(UpdateTable(table, Head(ids), changes), Tail(ids), changes)

RECURSIVE ModifyEvents(_, _, _, _)
ModifyEvents(entityType, table, ids, changes) ==
    IF ids = <<>> THEN <<>>
    ELSE UpdateEvents(entityType, table, Head(ids), changes)
         \o ModifyEvents(entityType, UpdateTable(table, Head(ids), changes), Tail(ids), changes)

\* useDatabase.deleteCategory (part_001:249-259), called by
\* CategoryList.confirmDelete (part_003:43-47)
deleteCategory(id, mergeToId) ==
    LET moved == IF IsSome(mergeToId) THEN CategoryTransactions(transactions, id) ELSE <<>>
        changes == [categoryId |-> IF IsSome(mergeToId) THEN Get(mergeToId) ELSE id]
        removed == IF id \in Keys(categories) THEN <<id>> ELSE <<>>
    IN  /\ transactions' = ModifyAll(transactions, moved, changes)
        /\ categories' = Remove(categories, {id})
        /\ Logged(ModifyEvents("transaction", transactions, moved, changes)
                  \o DeleteEvents("category", categories, removed))
        /\ Ran("deleteCategory", [id |-> id, mergeToId |-> mergeToId])
        /\ UNCHANGED <<settings, budgets, now, ui, file, pending>>

\* database.ts:106-113: one Table.add per item, each with its 'creating' hook
RECURSIVE AddAll(_, _)
AddAll(table, items) ==
    IF items = <<>> THEN table ELSE AddAll(Put(table, Head(items)), Tail(items))

RECURSIVE AddAllEvents(_, _)
AddAllEvents(entityType, items) ==
    IF items = <<>> THEN <<>>
    ELSE AddEvents(entityType, Head(items)) \o AddAllEvents(entityType, Tail(items))

\* db.createSampleData (database.ts:95-115)
createSampleData ==
    LET ids == FreshSampleIds
        added == [i \in DOMAIN sampleCategories |-> SampleCategory(i, ids[i], now)]
    IN  /\ \E i \in DOMAIN SampleIdBlocks : Unused(SampleIdBlocks[i])
        /\ categories' = AddAll(categories, added)
        /\ Logged(AddAllEvents("category", added))
        /\ Ran("createSampleData", <<>>)
        /\ UNCHANGED <<transactions, settings, budgets, now, ui, file, pending>>

\* useDatabase.updateTransaction (part_001:219-224), called by the
\* transaction form with the fields it holds (part_004:114-124)
updateTransaction(id, input) ==
    LET changes == Modify(input, [receiptImage |-> None, updatedAt |-> now])
    IN  /\ transactions' = UpdateTable(transactions, id, changes)
        /\ Logged(UpdateEvents("transaction", transactions, id, changes))
        /\ Ran("updateTransaction", [id |-> id, input |-> input])
        /\ UNCHANGED <<categories, settings, budgets, now, ui, file, pending>>

----------------------------------------------------------------------------
(* Operations on settings and snapshots *)

\* db.initializeDefaultData (database.ts:78-93), run by useDatabase on mount
initializeDefaultData ==
    /\ settings' = IF Cardinality(Keys(settings)) = 0
                   THEN Put(settings, defaultSettings(now))
                   ELSE settings
    /\ Logged(<<>>)
    /\ Ran("initializeDefaultData", <<>>)
    /\ UNCHANGED <<transactions, categories, budgets, now, ui, file, pending>>

\* useDatabase.updateSettings (part_001:261-266)
updateSettings(updates) ==
    /\ settings' = UpdateTable(settings, "main", SettingsChanges(updates, now))
    /\ Logged(<<>>)
    /\ Ran("updateSettings", [updates |-> updates])
    /\ UNCHANGED <<transactions, categories, budgets, now, ui, file, pending>>

\* db.exportData (database.ts:160-178): the snapshot is kept for a later import
ExportData ==
    /\ steps < MaxSteps
    /\ steps' = steps + 1
    /\ file' = Some(exportData(transactions, categories, settings, budgets, now))
    /\ UNCHANGED <<transactions, categories, settings, budgets, actionLogs, logSerial,
                   now, ui, fault, pending, last>>

\* Mutant: a snapshot without a settings entry empties the table
ImportSettingsOrNone(sets, entries) ==
    IF Len(entries) > 0
    THEN IF "main" \in Keys(sets)
         THEN UpdateTable(sets, "main", entries[1])
         ELSE Put(sets, entries[1])
    ELSE EmptyTable

\* database.ts:198-206: the settings table after the snapshot's settings entry
ImportSettings(sets, entries) ==
    IF Len(entries) > 0
    THEN IF "main" \in Keys(sets)
         THEN UpdateTable(sets, "main", entries[1])
         ELSE Put(sets, entries[1])
    ELSE sets

\* db.importData (database.ts:180-207). The three clear() calls of an overwrite
\* run side by side: their hooks' entries come in either order of the tables.
\* A bulkAdd that rejects ends the import where it stands.
importData(data, mode) ==
    LET txs0 == IF mode = "overwrite" THEN EmptyTable ELSE transactions
        cats0 == IF mode = "overwrite" THEN EmptyTable ELSE categories
        buds0 == IF mode = "overwrite" THEN EmptyTable ELSE budgets
        txsCleared == IF mode = "overwrite"
                      THEN ClearEvents("transaction", transactions, TxIdOrder) ELSE <<>>
        catsCleared == IF mode = "overwrite"
                       THEN ClearEvents("category", categories, CatIdOrder) ELSE <<>>
        catsFail == BulkAddRejects(cats0, data.data.categories)
        txsFail == catsFail \/ BulkAddRejects(txs0, data.data.transactions)
        budsFail == txsFail \/ BulkAddRejects(buds0, data.data.budgets)
        added == BulkAddEvents("category", cats0, data.data.categories)
                 \o (IF catsFail THEN <<>>
                     ELSE BulkAddEvents("transaction", txs0, data.data.transactions))
    IN  /\ categories' = bulkAdd(cats0, data.data.categories)
        /\ transactions' = IF catsFail THEN txs0 ELSE bulkAdd(txs0, data.data.transactions)
        /\ budgets' = IF txsFail THEN buds0 ELSE bulkAdd(buds0, data.data.budgets)
        /\ settings' = IF budsFail THEN settings
                       ELSE ImportSettings(settings, data.data.settings)
        /\ \E cleared \in {txsCleared \o catsCleared, catsCleared \o txsCleared} :
               Logged(cleared \o added)
        /\ Ran("importData", [data |-> data, mode |-> mode])
        /\ UNCHANGED <<now, ui, file, pending>>

\* The store once useDatabase has mounted for the first time (part_001:192-198)
InitReady ==
    /\ transactions = EmptyTable
    /\ categories = EmptyTable
    /\ settings = Put(EmptyTable, defaultSettings(0))
    /\ budgets = EmptyTable
    /\ actionLogs = <<>>
    /\ logSerial = 0
    /\ now = 0
    /\ ui = [filters |-> NoFilters, sort |-> DefaultSort]
    /\ file = None
    /\ fault = NoFault
    /\ pending = <<>>
    /\ steps = 0
    /\ last = [op |-> "init", arg |-> <<>>, pre |-> <<>>]

SubmitCategoryForm ==
    \E edited \in {None} \cup {Some(id) : id \in Keys(categories)}, form \in CategoryForms :
        submitCategoryForm(edited, form)
SubmitNameForm ==
    \E edited \in {None} \cup {Some(id) : id \in Keys(categories)}, form \in NameForms :
        submitCategoryForm(edited, form)
\* CategoryList (part_003:37-47, 142-149): a listed category is deleted, its
\* transactions left alone or moved to the first other category of the list
SubmitPlainForm ==
    \E edited \in {None} \cup {Some(id) : id \in Keys(categories)}, form \in PlainForms :
        submitCategoryForm(edited, form)
DeleteCategory ==
    \E id \in Keys(categories) \cap DeleteTargets :
        LET others == SelectSeq(useCategories(categories), LAMBDA to : to # id)
        IN  \E mergeToId \in {None} \cup {Some(others[i]) : i \in DOMAIN others \cap {1}} :
                deleteCategory(id, mergeToId)
CreateExpense == \E id \in TxIds, input \in ExpenseInputs : createTransaction(id, input)
UpdateTransaction ==
    \E id \in Keys(transactions), input \in IncomeInputs : updateTransaction(id, input)
UpdateSettings == \E updates \in SettingsUpdates : updateSettings(updates)
ImportData == \E mode \in ImportModes : IsSome(file) /\ importData(Get(file), mode)

----------------------------------------------------------------------------
(* Specifications over categories, settings and snapshots *)

\* The category form and the category list
NextCat ==
    \/ SubmitCategoryForm
    \/ DeleteCategory

SpecCat == InitEmpty /\ [][NextCat]_vars

\* The settings record under initialisation, updates, export and import
NextSettings ==
    \/ initializeDefaultData
    \/ UpdateSettings
    \/ CreateTransaction
    \/ ExportData
    \/ ImportData

SpecSettings == InitEmpty /\ [][NextSettings]_vars

\* The store under export and import
NextRoundTrip ==
    \/ initializeDefaultData
    \/ UpdateSettings
    \/ CreateTransaction
    \/ SoftDeleteTransaction
    \/ SubmitNameForm
    \/ ExportData
    \/ ImportData

SpecRoundTrip == InitReady /\ [][NextRoundTrip]_vars

\* The categories under the form, sample data, export and import
NextNames ==
    \/ SubmitNameForm
    \/ DeleteCategory
    \/ createSampleData
    \/ ExportData
    \/ ImportData

SpecNames == InitEmpty /\ [][NextNames]_vars

\* Every operation that writes a transaction or a category
NextAudit ==
    \/ CreateExpense
    \/ UpdateTransaction
    \/ SoftDeleteTransaction
    \/ RestoreTransaction
    \/ permanentlyDeleteOldTrash
    \/ Tick(RetentionDays + 1)
    \/ SubmitPlainForm
    \/ DeleteCategory
    \/ ExportData
    \/ ImportData

SpecAudit == InitEmpty /\ [][NextAudit]_vars

----------------------------------------------------------------------------
(* A store with a long past: the category "c0" was created through the     *)
(* form, had its budget edited twice a day and was deleted in the end, so   *)
(* that the log holds n entries and the tables are empty again.             *)

HistoryForm(i) ==
    [name |-> <<82, 101, 110, 116>>, icon |-> <<55357, 56496>>,
     color |-> <<35, 51, 98, 56, 50, 102, 54>>, type |-> "expense",
     budget |-> IF i % 2 = 0 THEN <<49, 48, 48, 48>> ELSE <<>>]

\* The day of the i-th of n past operations; the clock reads 0 afterwards
HistoryDay(i, n) == 0 - ((n - i) \div 2) - 1

\* The category "c0" after the i-th of n past operations, i < n
HistoryCategory(i, n) ==
    LET created == NewCategory("c0", categoryData(EmptyTable, None, HistoryForm(1)),
                               HistoryDay(1, n))
        stored == Put(EmptyTable, created)
    IN  IF i = 1 THEN created
        ELSE Modify(created,
                    CategoryChanges(categoryData(stored, Some("c0"), HistoryForm(i)),
                                    HistoryDay(i, n)))

\* What the hook of the i-th of n past operations hands to logAction
HistoryEvent(i, n) ==
    LET stored == Put(EmptyTable, HistoryCategory(i - 1, n))
        changes == CategoryChanges(categoryData(stored, Some("c0"), HistoryForm(i)),
                                   HistoryDay(i, n))
    IN  IF i = 1 THEN AddEvents("category", HistoryCategory(1, n))[1]
        ELSE IF i = n THEN DeleteEvents("category", stored, <<"c0">>)[1]
        ELSE UpdateEvents("category", stored, "c0", changes)[1]

\* The log after the n past operations: no more than MaxLogs entries, so that
\* no logAction had anything to trim
History(n) == [i \in 1..n |-> NewLog(i - 1, HistoryEvent(i, n), HistoryDay(i, n))]

\* The lengths of the past: none, one short of the cap, at the cap
HistoryLengths == {0, MaxLogs - 1, MaxLogs}

\* The store with n past operations behind it and the actionLogs table in the
\* given condition
InitPast(n, mode) ==
    /\ transactions = EmptyTable
    /\ categories = EmptyTable
    /\ settings = EmptyTable
    /\ budgets = EmptyTable
    /\ actionLogs = History(n)
    /\ logSerial = n
    /\ now = 0
    /\ ui = [filters |-> NoFilters, sort |-> DefaultSort]
    /\ file = None
    /\ fault = [mode |-> mode, raised |-> FALSE]
    /\ pending = <<>>
    /\ steps = 0
    /\ last = [op |-> "init", arg |-> <<>>, pre |-> <<>>]

InitLog == \E n \in HistoryLengths : InitPast(n, "ok")

NextLog ==
    \/ CreateExpense
    \/ SoftDeleteTransaction
    \/ RestoreTransaction
    \/ createSampleData

SpecLog == InitLog /\ [][NextLog]_vars

----------------------------------------------------------------------------
(* Claims on the audit log, snapshots, settings and categories *)

\* The ActionLog entries the last operation appended and the log still holds
NewEntries ==
    {actionLogs[i] : i \in {j \in DOMAIN actionLogs : actionLogs[j].id > last.pre.logSerial}}

ActiveTransactions(txs) == {txs[id] : id \in {k \in Keys(txs) : txs[k].deletedAt = None}}

Records(table) == {table[id] : id \in Keys(table)}

\* The last operation was importData(exportData(), 'overwrite') on the store S
RoundTripRan ==
    /\ last.op = "importData"
    /\ last.arg.mode = "overwrite"
    /\ last.arg.data = exportData(last.pre.transactions, last.pre.categories,
                                  last.pre.settings, last.pre.budgets, last.pre.now)

\* C6: importData(exportData(), 'overwrite') on a store S yields a store whose
\* active transactions, categories and Settings record are those of S.
C6_RoundTripPreservesStore ==
    RoundTripRan =>
        /\ ActiveTransactions(transactions) = ActiveTransactions(last.pre.transactions)
        /\ Records(categories) = Records(last.pre.categories)
        /\ Records(settings) = Records(last.pre.settings)

\* The round trip ran on a store with a transaction, a category and settings
C6_Witness ==
    /\ RoundTripRan
    /\ ActiveTransactions(last.pre.transactions) # {}
    /\ Records(last.pre.categories) # {}
    /\ Records(last.pre.settings) # {}

ExactlyOneSettings == Keys(settings) = {"main"} /\ settings["main"].id = "main"

\* C7: from the moment initializeDefaultData has completed, every state holds
\* exactly one Settings record, with id 'main', whatever updateSettings,
\* importData and further initializeDefaultData calls follow.
C7_ExactlyOneSettingsAfterInit ==
    [](last.op = "initializeDefaultData" => []ExactlyOneSettings)

\* An initialised store imported a snapshot that carries no settings entry
C7_Witness ==
    /\ last.op = "importData"
    /\ Keys(last.pre.settings) = {"main"}
    /\ Len(last.arg.data.data.settings) = 0
    /\ ExactlyOneSettings

\* C8: no two categories of the store have names that are equal ignoring case.
C8_NoTwoCategoriesShareAName ==
    \A a \in Keys(categories), b \in Keys(categories) :
        a # b => toLowerCase(categories[a].name) # toLowerCase(categories[b].name)

\* Another category of the store S carries the submitted name, trimmed,
\* ignoring case
NameOfAnother ==
    \E id \in Keys(last.pre.categories) :
        /\ last.arg.edited # Some(id)
        /\ toLowerCase(last.pre.categories[id].name) = toLowerCase(trim(last.arg.form.name))

\* C9: a submitted category form whose trimmed name equals, ignoring case, the
\* name of another category fails validation and writes nothing; an edit that
\* keeps the category's own name, which no other category carries, is not
\* rejected as a duplicate.
C9_DuplicateNameRejectedWithoutWrite ==
    last.op = "submitCategoryForm" =>
        /\ NameOfAnother =>
              /\ ~IsValid(last.arg.errors)
              /\ categories = last.pre.categories
              /\ actionLogs = last.pre.actionLogs
        /\ (/\ IsSome(last.arg.edited)
            /\ last.arg.form.name = last.pre.categories[Get(last.arg.edited)].name
            /\ ~NameOfAnother)
           => last.arg.errors.name # Some("duplicate")

\* "Food" was submitted where another category is named "food"
C9_Witness ==
    /\ last.op = "submitCategoryForm"
    /\ NameOfAnother
    /\ last.arg.form.name = <<70, 111, 111, 100>>
    /\ \E id \in Keys(last.pre.categories) :
           last.pre.categories[id].name = <<102, 111, 111, 100>>
    /\ last.arg.errors.name = Some("duplicate")

\* The fields in which the record `to` differs from `from`, with their new values
ChangedFields(from, to) == [f \in {g \in DOMAIN to : from[g] # to[g]} |-> to[f]]

HasEntry(action, entityType, id, data) ==
    \E e \in NewEntries :
        /\ e.action = action
        /\ e.entityType = entityType
        /\ e.entityId = id
        /\ e.data = data

\* Every record of the table created, changed or removed by the last
\* operation has its entry
AuditedTable(entityType, before, after) ==
    /\ \A id \in Keys(after) \ Keys(before) : HasEntry("create", entityType, id, after[id])
    /\ \A id \in Keys(before) \ Keys(after) : HasEntry("delete", entityType, id, before[id])
    /\ \A id \in Keys(before) \cap Keys(after) :
           before[id] # after[id] =>
               \/ HasEntry("update", entityType, id,
                           [modifications |-> ChangedFields(before[id], after[id]),
                            original |-> before[id]])
               \/ /\ HasEntry("delete", entityType, id, before[id])
                  /\ HasEntry("create", entityType, id, after[id])

\* C10: every create, update and physical delete of a Transaction or Category
\* record appends an ActionLog entry carrying the mutation kind, the table, the
\* record's id and the payload: the new record for a create, the changed fields
\* with the pre-update record for an update, the removed record for a delete.
C10_EveryWriteIsLogged ==
    last.op # "init" =>
        /\ AuditedTable("transaction", last.pre.transactions, transactions)
        /\ AuditedTable("category", last.pre.categories, categories)

\* deleteCategory moved a transaction to the merge target and removed the category
C10_Witness ==
    /\ last.op = "deleteCategory"
    /\ IsSome(last.arg.mergeToId)
    /\ \E id \in Keys(transactions) :
           /\ last.pre.transactions[id].categoryId = last.arg.id
           /\ transactions[id].categoryId = Get(last.arg.mergeToId)
    /\ last.arg.id \in Keys(last.pre.categories) \ Keys(categories)

----------------------------------------------------------------------------
(* The store while the actionLogs table fails *)

\* The actionLogs table fails from the start (quota, corruption) or not at all
InitFaulty == \E n \in HistoryLengths, mode \in FaultModes : InitPast(n, mode)

NextFaulty ==
    \/ CreateExpense
    \/ SoftDeleteTransaction
    \/ RestoreTransaction
    \/ SubmitPlainForm

SpecFaulty == InitFaulty /\ [][NextFaulty]_vars

\* The transactions table the last operation must leave behind when it is
\* one of create, soft delete and restore of a transaction
ExpectedTransactions ==
    LET pre == last.pre.transactions
        id == last.arg.id
    IN  [k \in Keys(pre) \cup (IF last.op = "createTransaction" THEN {id} ELSE {}) |->
            IF k # id THEN pre[k]
            ELSE IF last.op = "createTransaction"
            THEN [id |-> id, amount |-> last.arg.input.amount, date |-> last.arg.input.date,
                  categoryId |-> last.arg.input.categoryId, memo |-> last.arg.input.memo,
                  type |-> last.arg.input.type, receiptImage |-> None,
                  createdAt |-> last.pre.now, updatedAt |-> last.pre.now, deletedAt |-> None]
            ELSE [pre[k] EXCEPT !.updatedAt = last.pre.now,
                                !.deletedAt = IF last.op = "softDeleteTransaction"
                                              THEN Some(last.pre.now) ELSE None]]

\* C11: when the ActionLog insertion or the trimming inside logAction fails,
\* the mutation that triggered it (restoreTransaction's update included) is
\* committed as it would be with logging intact, and its caller sees no failure.
C11_LoggingFailureLeavesMutationIntact ==
    /\ ~fault.raised
    /\ last.op \in {"createTransaction", "softDeleteTransaction", "restoreTransaction"}
       => transactions = ExpectedTransactions
    /\ (/\ last.op = "submitCategoryForm"
        /\ IsValid(last.arg.errors)
        /\ last.arg.edited = None)
       => \E id \in Keys(categories) \ Keys(last.pre.categories) :
              categories[id].name = trim(last.arg.form.name)

\* restoreTransaction cleared deletedAt while the log insertion failed
C11_Witness ==
    /\ last.op = "restoreTransaction"
    /\ IsSome(last.pre.transactions[last.arg.id].deletedAt)
    /\ transactions[last.arg.id].deletedAt = None
    /\ actionLogs = last.pre.actionLogs
    /\ ~fault.raised

----------------------------------------------------------------------------
(* The transaction form: TransactionForm (part_004) with validateAmount,    *)
(* validateMemo and isFutureDate (part_002)                                 *)

\* The number of leading decimal digits of s
LeadingDigits(s) ==
    CHOOSE k \in 0..Len(s) :
        /\ \A j \in 1..k : IsDigit(s[j])
        /\ k < Len(s) => ~IsDigit(s[k + 1])

\* parseFloat(s) for a string of a sign, digits, a point and digits: the sign,
\* the whole part and whether a fraction is left; None stands for NaN
parseFloat(s) ==
    LET t == TrimLeft(s)
        signed == t # <<>> /\ (t[1] = 45 \/ t[1] = 43)
        body == IF signed THEN Tail(t) ELSE t
        n == LeadingDigits(body)
        rest == SubSeq(body, n + 1, Len(body))
        decimals == IF rest # <<>> /\ rest[1] = 46
                    THEN SubSeq(rest, 2, 1 + LeadingDigits(Tail(rest)))
                    ELSE <<>>
    IN  IF n = 0 /\ decimals = <<>> THEN None
        ELSE Some([negative |-> signed /\ t[1] = 45,
                   units |-> DigitsValue(SubSeq(body, 1, n)),
                   fraction |-> DigitsValue(decimals) # 0])

\* Mutant: validateAmount without the upper limit
validateAmountWithoutMaximum(amount) ==
    LET numAmount == parseFloat(amount)
    IN  IF numAmount = None THEN Some("notANumber")
        ELSE IF Get(numAmount).negative \/ Get(numAmount).units < 1 THEN Some("tooSmall")
        ELSE IF Get(numAmount).fraction THEN Some("notAnInteger")
        ELSE None

\* part_002:47-67: the error, if any
validateAmount(amount) ==
    LET numAmount == parseFloat(amount)
    IN  IF numAmount = None THEN Some("notANumber")
        ELSE IF Get(numAmount).negative \/ Get(numAmount).units < 1 THEN Some("tooSmall")
        ELSE IF Get(numAmount).units > 9999999
                \/ (Get(numAmount).units = 9999999 /\ Get(numAmount).fraction)
        THEN Some("tooLarge")
        ELSE IF Get(numAmount).fraction THEN Some("notAnInteger")
        ELSE None

\* part_002:69-75
validateMemo(memo) == IF Len(memo) > 200 THEN Some("tooLong") ELSE None

\* The calendar day of the clock at 0, as new Date().toISOString().split('T')[0]
Today == IsoDate(2024, 3, 1)

\* part_002:77-83, while the clock stands at 0
isFutureDate(date) == StrLt(Today, date)

\* part_004:63-92: newErrors
validateTransactionForm(form) ==
    [amount |-> validateAmount(form.amount),
     date |-> IF form.date = <<>> THEN Some("required") ELSE None,
     categoryId |-> IF form.categoryId = "" THEN Some("required") ELSE None,
     memo |-> IF form.memo # <<>> THEN validateMemo(form.memo) ELSE None]

NoErrors(errors) == \A f \in DOMAIN errors : errors[f] = None

\* part_004:114-121
transactionData(form, type) ==
    [amount |-> Get(parseInt(form.amount)), date |-> form.date,
     categoryId |-> form.categoryId,
     memo |-> IF form.memo # <<>> THEN Some(form.memo) ELSE None,
     type |-> type]

\* What the amount field can hold: digits typed (part_004:204-206) or the
\* amount of the edited record as toString() gives it (part_004:42)
FormAmounts ==
    {<<>>, <<48>>, <<49>>, <<48, 48, 55>>,                    \* "", "0", "1", "007"
     <<57, 57, 57, 57, 57, 57, 57>>,                          \* "9999999"
     <<49, 48, 48, 48, 48, 48, 48, 48>>,                      \* "10000000"
     <<49, 46, 53>>, <<45, 53>>}                              \* "1.5", "-5"

FormDates == {<<>>, Today, IsoDate(2024, 3, 31)}

FormMemos == {<<>>, [i \in 1..200 |-> 97], [i \in 1..201 |-> 97]}

\* A form that passes, and the forms that differ from it in one field
BaseForm == [amount |-> <<49>>, date |-> Today, categoryId |-> "c1", memo |-> <<>>]

TransactionForms ==
    {[BaseForm EXCEPT !.amount = a] : a \in FormAmounts}
    \cup {[BaseForm EXCEPT !.date = d] : d \in FormDates}
    \cup {[BaseForm EXCEPT !.categoryId = c] : c \in {"", "c1"}}
    \cup {[BaseForm EXCEPT !.memo = m] : m \in FormMemos}

\* TransactionForm.handleSubmit (part_004:94-149) with
\* useDatabase.createTransaction / updateTransaction (part_001:207-224).
\* `edited` is the id of the transaction prop, if any, `id` the id drawn for
\* a new record, `confirmed` the answer to the future-date question.
submitTransactionForm(edited, id, form, type, confirmed) ==
    LET errors == validateTransactionForm(form)
        data == transactionData(form, type)
        changes == Modify(data, [receiptImage |-> None, updatedAt |-> now])
    IN  /\ IsSome(edited) => Get(edited) \in Keys(transactions)
        /\ id \notin Keys(transactions)
        /\ IF ~NoErrors(errors) \/ (isFutureDate(form.date) /\ ~confirmed)
           THEN /\ UNCHANGED transactions
                /\ Logged(<<>>)
           ELSE IF IsSome(edited)
           THEN /\ transactions' = UpdateTable(transactions, Get(edited), changes)
                /\ Logged(UpdateEvents("transaction", transactions, Get(edited), changes))
           ELSE /\ transactions' = Put(transactions, NewTransaction(id, data, now))
                /\ Logged(AddEvents("transaction", NewTransaction(id, data, now)))
        /\ Ran("submitTransactionForm",
               [edited |-> edited, form |-> form, errors |-> errors, confirmed |-> confirmed])
        /\ UNCHANGED <<categories, settings, budgets, now, ui, file, pending>>

SubmitTransactionForm ==
    \E edited \in {None} \cup {Some(t) : t \in Keys(transactions)}, id \in TxIds,
       form \in TransactionForms, confirmed \in BOOLEAN :
        submitTransactionForm(edited, id, form, "expense", confirmed)

NextForm ==
    \/ SubmitTransactionForm
    \/ SoftDeleteTransaction

SpecForm == InitEmpty /\ [][NextForm]_vars

\* The submitted form breaks one of the rules: its amount is not an integer in
\* [1, 9999999] written in digits, its memo is longer than 200 characters, or
\* it lacks a date or a category
BreaksARule(form) ==
    \/ form.amount = <<>>
    \/ \E i \in DOMAIN form.amount : form.amount[i] < 48 \/ form.amount[i] > 57
    \/ DigitsValue(form.amount) < 1
    \/ DigitsValue(form.amount) > 9999999
    \/ Len(form.memo) > 200
    \/ form.date = <<>>
    \/ form.categoryId = ""

\* C12: a transaction form whose amount is not an integer in [1, 9999999],
\* whose memo exceeds 200 characters or that lacks a date or a category is
\* turned down with errors before any store call, the store unchanged; every
\* transaction written through the form has an integer amount in [1, 9999999].
C12_InvalidTransactionFormWritesNothing ==
    /\ (last.op = "submitTransactionForm" /\ BreaksARule(last.arg.form)) =>
           /\ ~NoErrors(last.arg.errors)
           /\ transactions = last.pre.transactions
           /\ actionLogs = last.pre.actionLogs
    /\ \A id \in Keys(transactions) :
           transactions[id].amount \in 1..9999999

\* An edit with the amount "10000000" was turned down, the record left as it was
C12_Witness ==
    /\ last.op = "submitTransactionForm"
    /\ IsSome(last.arg.edited)
    /\ last.arg.form.amount = <<49, 48, 48, 48, 48, 48, 48, 48>>
    /\ last.arg.errors.amount = Some("tooLarge")
    /\ transactions = last.pre.transactions

----------------------------------------------------------------------------
(* importData step by step: database.ts:180-207, one step for each await *)

\* Mutant: the overwrite clears the settings as well
OverwriteClearsSettingsToo == {"transactions", "categories", "budgets", "settings"}

\* database.ts:182-186: the tables an overwrite clears
OverwriteClears == {"transactions", "categories", "budgets"}

\* The hooks' log entries of one step of a call in flight
Appended(evs) ==
    /\ actionLogs' \in LogAllUnder(fault.mode, actionLogs, logSerial, evs, now)
    /\ logSerial' = logSerial + Len(evs)
    /\ UNCHANGED fault

\* Mutant: the tables are cleared in either mode
AfterClearInEitherMode(name, table, mode) ==
    IF name \in OverwriteClears THEN EmptyTable ELSE table

\* The table after the clear() of an import in the given mode
AfterClear(name, table, mode) ==
    IF mode = "overwrite" /\ name \in OverwriteClears THEN EmptyTable ELSE table

\* importData is called with the snapshot on file
startImport(mode) ==
    /\ pending = <<>>
    /\ IsSome(file)
    /\ steps < MaxSteps
    /\ steps' = steps + 1
    /\ pending' = <<[op |-> "importData", pc |-> "clear", data |-> Get(file),
                     mode |-> mode, pre |-> Store]>>
    /\ UNCHANGED <<transactions, categories, settings, budgets, actionLogs, logSerial,
                   now, ui, file, fault, last>>

\* The call in flight returns or throws
Finish(job, rejected) ==
    /\ pending' = <<>>
    /\ last' = [op |-> "importData",
                arg |-> [data |-> job.data, mode |-> job.mode, rejected |-> rejected],
                pre |-> job.pre]

Goto(job, pc) ==
    /\ pending' = <<[job EXCEPT !.pc = pc]>>
    /\ UNCHANGED last

\* database.ts:181-187
importClear(job) ==
    /\ job.pc = "clear"
    /\ transactions' = AfterClear("transactions", transactions, job.mode)
    /\ categories' = AfterClear("categories", categories, job.mode)
    /\ budgets' = AfterClear("budgets", budgets, job.mode)
    /\ settings' = AfterClear("settings", settings, job.mode)
    /\ \E cleared \in
           {ClearEvents("transaction", transactions, TxIdOrder)
                \o ClearEvents("category", categories, CatIdOrder),
            ClearEvents("category", categories, CatIdOrder)
                \o ClearEvents("transaction", transactions, TxIdOrder)} :
           Appended(IF job.mode = "overwrite" THEN cleared ELSE <<>>)
    /\ Goto(job, "categories")

\* database.ts:189-191
importCategories(job) ==
    /\ job.pc = "categories"
    /\ categories' = bulkAdd(categories, job.data.data.categories)
    /\ Appended(BulkAddEvents("category", categories, job.data.data.categories))
    /\ IF BulkAddRejects(categories, job.data.data.categories)
       THEN Finish(job, TRUE) ELSE Goto(job, "transactions")
    /\ UNCHANGED <<transactions, budgets, settings>>

\* database.ts:192-194
importTransactions(job) ==
    /\ job.pc = "transactions"
    /\ transactions' = bulkAdd(transactions, job.data.data.transactions)
    /\ Appended(BulkAddEvents("transaction", transactions, job.data.data.transactions))
    /\ IF BulkAddRejects(transactions, job.data.data.transactions)
       THEN Finish(job, TRUE) ELSE Goto(job, "budgets")
    /\ UNCHANGED <<categories, budgets, settings>>

\* database.ts:195-197
importBudgets(job) ==
    /\ job.pc = "budgets"
    /\ budgets' = bulkAdd(budgets, job.data.data.budgets)
    /\ Appended(<<>>)
    /\ IF BulkAddRejects(budgets, job.data.data.budgets)
       THEN Finish(job, TRUE) ELSE Goto(job, "settings")
    /\ UNCHANGED <<transactions, categories, settings>>

\* database.ts:198-206
importSettings(job) ==
    /\ job.pc = "settings"
    /\ settings' = ImportSettings(settings, job.data.data.settings)
    /\ Appended(<<>>)
    /\ Finish(job, FALSE)
    /\ UNCHANGED <<transactions, categories, budgets>>

\* The import in flight goes on to its next await
importStep ==
    /\ pending # <<>>
    /\ pending[1].op = "importData"
    /\ \/ importClear(pending[1])
       \/ importCategories(pending[1])
       \/ importTransactions(pending[1])
       \/ importBudgets(pending[1])
       \/ importSettings(pending[1])
    /\ UNCHANGED <<now, ui, file, steps>>

StartImport == \E mode \in ImportModes : startImport(mode)

\* A snapshot exportData produced on another installation: one transaction,
\* one category made through the form, the settings with the dark theme
Backup ==
    exportData(
        Put(EmptyTable, NewTransaction("t2", CHOOSE input \in ExpenseInputs : TRUE, 0)),
        Put(EmptyTable,
            NewCategory("c3", categoryData(EmptyTable, None,
                                           CHOOSE form \in PlainForms :
                                               form.name = <<82, 101, 110, 116>>), 0)),
        Put(EmptyTable, Modify(defaultSettings(0), [theme |-> "dark"])),
        EmptyTable, 0)

\* The initialised store with the backup on file
InitImport ==
    /\ transactions = EmptyTable
    /\ categories = EmptyTable
    /\ settings = Put(EmptyTable, defaultSettings(0))
    /\ budgets = EmptyTable
    /\ actionLogs = <<>>
    /\ logSerial = 0
    /\ now = 0
    /\ ui = [filters |-> NoFilters, sort |-> DefaultSort]
    /\ file = Some(Backup)
    /\ fault = NoFault
    /\ pending = <<>>
    /\ steps = 0
    /\ last = [op |-> "init", arg |-> <<>>, pre |-> <<>>]

\* Writes, exports and imports, the import one await at a time and nothing
\* else started while it runs
NextImport ==
    \/ pending = <<>> /\ CreateExpense
    \/ pending = <<>> /\ SoftDeleteTransaction
    \/ pending = <<>> /\ SubmitPlainForm
    \/ pending = <<>> /\ UpdateSettings
    \/ pending = <<>> /\ ExportData
    \/ StartImport
    \/ importStep

SpecImport == InitImport /\ [][NextImport]_vars

\* The records of an array of the snapshot
Items(array) == {array[i] : i \in DOMAIN array}

\* An overwrite import has returned and nothing has run since
OverwriteDone ==
    /\ pending = <<>>
    /\ last.op = "importData"
    /\ last.arg.mode = "overwrite"
    /\ ~last.arg.rejected

\* C13: after importData(snapshot, 'overwrite') the transactions, categories
\* and budgets tables hold exactly the snapshot's records; the settings table
\* is never cleared on the way: the record it held stays until the last step
\* and is then updated in place.
C13_OverwriteReplacesTablesKeepsSettings ==
    /\ OverwriteDone =>
           /\ Records(transactions) = Items(last.arg.data.data.transactions)
           /\ Records(categories) = Items(last.arg.data.data.categories)
           /\ Records(budgets) = Items(last.arg.data.data.budgets)
           /\ \A id \in Keys(last.pre.settings) :
                  /\ id \in Keys(settings)
                  /\ \A f \in DOMAIN settings[id] :
                         settings[id][f] =
                             IF Len(last.arg.data.data.settings) > 0
                                /\ f \in DOMAIN last.arg.data.data.settings[1]
                             THEN last.arg.data.data.settings[1][f]
                             ELSE last.pre.settings[id][f]
    /\ (pending # <<>> /\ pending[1].mode = "overwrite") =>
           settings = pending[1].pre.settings

\* The overwrite dropped a local transaction and changed the theme of the
\* settings record that was there
C13_Witness ==
    /\ OverwriteDone
    /\ \E id \in Keys(last.pre.transactions) : id \notin Keys(transactions)
    /\ Keys(last.pre.settings) = {"main"}
    /\ last.pre.settings["main"].theme = "system"
    /\ settings["main"].theme = "dark"

\* A merge import has returned or thrown and nothing has run since
MergeDone ==
    /\ pending = <<>>
    /\ last.op = "importData"
    /\ last.arg.mode = "merge"

\* Every record of the table `before` is in `after` as it was
Kept(before, after) ==
    \A id \in Keys(before) : id \in Keys(after) /\ after[id] = before[id]

\* No id of the snapshot's array is a key of the table
NoCollision(table, array) == \A i \in DOMAIN array : array[i].id \notin Keys(table)

\* C14: importData(snapshot, 'merge') removes and modifies no record of the
\* transactions, categories and budgets tables, and when no id of the snapshot
\* is taken each of these tables ends as its former records plus the snapshot's.
C14_MergeKeepsRecordsAndAddsSnapshot ==
    /\ (pending # <<>> /\ pending[1].mode = "merge") =>
           /\ Kept(pending[1].pre.transactions, transactions)
           /\ Kept(pending[1].pre.categories, categories)
           /\ Kept(pending[1].pre.budgets, budgets)
    /\ MergeDone =>
           /\ Kept(last.pre.transactions, transactions)
           /\ Kept(last.pre.categories, categories)
           /\ Kept(last.pre.budgets, budgets)
           /\ (/\ NoCollision(last.pre.transactions, last.arg.data.data.transactions)
               /\ NoCollision(last.pre.categories, last.arg.data.data.categories)
               /\ NoCollision(last.pre.budgets, last.arg.data.data.budgets))
              => /\ Records(transactions) = Records(last.pre.transactions)
                                            \cup Items(last.arg.data.data.transactions)
                 /\ Records(categories) = Records(last.pre.categories)
                                          \cup Items(last.arg.data.data.categories)
                 /\ Records(budgets) = Records(last.pre.budgets)
                                       \cup Items(last.arg.data.data.budgets)

\* A merge added the snapshot's transaction next to a local one
C14_Witness ==
    /\ MergeDone
    /\ ~last.arg.rejected
    /\ Keys(last.pre.transactions) # {}
    /\ Keys(transactions) \ Keys(last.pre.transactions) # {}
    /\ Keys(categories) \ Keys(last.pre.categories) # {}

\* C15: exportData returns a snapshot of version 1 whose four arrays hold every
\* record of the corresponding table, soft-deleted transactions included, and
\* the export changes no table.
C15_ExportHoldsEveryRecord ==
    [][file' # file =>
          /\ Get(file').version = 1
          /\ Items(Get(file').data.transactions) = Records(transactions)
          /\ Items(Get(file').data.categories) = Records(categories)
          /\ Items(Get(file').data.settings) = Records(settings)
          /\ Items(Get(file').data.budgets) = Records(budgets)
          /\ Len(Get(file').data.transactions) = Cardinality(Keys(transactions))
          /\ Len(Get(file').data.categories) = Cardinality(Keys(categories))
          /\ UNCHANGED <<transactions, categories, settings, budgets>>]_vars

\* The snapshot on file is that of the store as it stands, with a soft-deleted
\* transaction in it
C15_Witness ==
    /\ IsSome(file)
    /\ file # Some(Backup)
    /\ Items(Get(file).data.transactions) = Records(transactions)
    /\ \E i \in DOMAIN Get(file).data.transactions :
           Get(file).data.transactions[i].deletedAt # None

----------------------------------------------------------------------------
(* Statistics and recent categories over a ledger whose categories come and *)
(* go: useCategoryStats (part_001:147-186), useRecentCategories             *)
(* (part_001:101-117)                                                       *)

\* Array.from(new Set(seq)): the distinct values, by first occurrence
Distinct(seq) ==
    LET firsts == {i \in DOMAIN seq : \A j \in 1..(i - 1) : seq[j] # seq[i]}
        ranks == OrderBy(firsts, [i \in firsts |-> i])
    IN  [k \in DOMAIN ranks |-> seq[ranks[k]]]

\* Mutant: the entries sorted by a.amount - b.amount
SortStatsAscending(entries) ==
    LET n == Len(entries)
        before(i, j) ==
            \/ entries[i].amount < entries[j].amount
            \/ entries[i].amount = entries[j].amount /\ i < j
        pos(i) == 1 + Cardinality({j \in 1..n : j # i /\ before(j, i)})
    IN  [p \in 1..n |-> entries[CHOOSE i \in 1..n : pos(i) = p]]

\* part_001:185: sort((a, b) => b.amount - a.amount), stable
SortStats(entries) ==
    LET n == Len(entries)
        before(i, j) ==
            \/ entries[j].amount - entries[i].amount < 0
            \/ entries[j].amount - entries[i].amount = 0 /\ i < j
        pos(i) == 1 + Cardinality({j \in 1..n : j # i /\ before(j, i)})
    IN  [p \in 1..n |-> entries[CHOOSE i \in 1..n : pos(i) = p]]

\* part_001:147-186. The Map keeps its entries in the order their keys were
\* first set; a transaction whose category is not in categoryMap is passed over.
useCategoryStats(txs, cats, month) ==
    LET found == MonthTransactions(txs, month)
        known == SelectSeq(found, LAMBDA t : t.categoryId \in Keys(cats))
        ids == Distinct([i \in DOMAIN known |-> known[i].categoryId])
        of(id) == SelectSeq(known, LAMBDA t : t.categoryId = id)
    IN  SortStats([i \in DOMAIN ids |->
                      [categoryId |-> ids[i], categoryName |-> cats[ids[i]].name,
                       amount |-> SumAmounts(of(ids[i])), count |-> Len(of(ids[i]))]])

\* The ledger's transaction forms: amount, date and category vary
LedgerInputs ==
    {input \in TxInputs :
        /\ input.memo = None
        /\ input.type = "expense"
        /\ input.date \in {IsoDate(2024, 2, 29), IsoDate(2024, 3, 1)}}

\* TransactionForm offers the categories of the store (part_004:23)
CreateLedgerTransaction ==
    \E id \in TxIds, input \in LedgerInputs :
        input.categoryId \in Keys(categories) /\ createTransaction(id, input)

\* The form with the given name
PlainForm(name) == CHOOSE form \in PlainForms : form.name = name

\* A store with the categories "Food" (c1) and "Rent" (c2) made through the form
InitLedger ==
    LET food == NewCategory("c1", categoryData(EmptyTable, None,
                                               PlainForm(<<70, 111, 111, 100>>)), 0)
        rent == NewCategory("c2", categoryData(Put(EmptyTable, food), None,
                                               PlainForm(<<82, 101, 110, 116>>)), 0)
    IN  /\ transactions = EmptyTable
        /\ categories = Put(Put(EmptyTable, food), rent)
        /\ settings = Put(EmptyTable, defaultSettings(0))
        /\ budgets = EmptyTable
        /\ actionLogs = <<>>
        /\ logSerial = 0
        /\ now = 0
        /\ ui = [filters |-> NoFilters, sort |-> DefaultSort]
        /\ file = None
        /\ fault = NoFault
        /\ pending = <<>>
        /\ steps = 0
        /\ last = [op |-> "init", arg |-> <<>>, pre |-> <<>>]

NextLedger ==
    \/ CreateLedgerTransaction
    \/ SoftDeleteTransaction
    \/ DeleteCategory
    \/ Tick(RetentionDays + 1)

SpecLedger == InitLedger /\ [][NextLedger]_vars

\* The non-deleted transactions dated in the month
ActiveOfMonth(txs, month) ==
    {id \in Keys(txs) : txs[id].deletedAt = None /\ MonthOf(txs[id].date) = month}

\* Those of them filed under the category
ActiveOfCategory(txs, month, c) ==
    {id \in ActiveOfMonth(txs, month) : txs[id].categoryId = c}

\* C16: categoryStats(month) has one entry per category that exists and has a
\* non-deleted transaction dated in the month, with the sum and the number of
\* those transactions, by descending sum; a transaction whose category does not
\* exist is in no entry and is still counted by monthlyStats.
C16_CategoryStatsOverExistingCategories ==
    \A month \in Months :
        LET stats == useCategoryStats(transactions, categories, month)
            shown == {c \in Keys(categories) :
                         ActiveOfCategory(transactions, month, c) # {}}
        IN  /\ {stats[i].categoryId : i \in DOMAIN stats} = shown
            /\ Len(stats) = Cardinality(shown)
            /\ \A i \in DOMAIN stats :
                  LET of == ActiveOfCategory(transactions, month, stats[i].categoryId)
                  IN  /\ stats[i].amount = SumOf(transactions, of)
                      /\ stats[i].count = Cardinality(of)
                      /\ stats[i].categoryName = categories[stats[i].categoryId].name
            /\ \A i, j \in DOMAIN stats : i < j => stats[i].amount >= stats[j].amount
            /\ useMonthlyStats(transactions, month).transactionCount
                   = Cardinality(ActiveOfMonth(transactions, month))

\* Two transactions of the month, one under a category that is gone: one entry,
\* two transactions counted
C16_Witness ==
    \E month \in Months :
        /\ Len(useCategoryStats(transactions, categories, month)) = 1
        /\ useMonthlyStats(transactions, month).transactionCount = 2
        /\ \E id \in ActiveOfMonth(transactions, month) :
              transactions[id].categoryId \notin Keys(categories)

\* part_001:108: limit(50)
RecentWindow == 50

\* part_001:103-109: the non-deleted transactions by the createdAt index,
\* reversed (equal createdAt: by primary key, reversed), the first 50 of them
RecentTransactions(txs) ==
    LET S == {id \in Keys(txs) : NotDeleted(txs[id])}
        n == Cardinality(S)
        after(a, b) ==
            \/ txs[a].createdAt > txs[b].createdAt
            \/ /\ txs[a].createdAt = txs[b].createdAt
               /\ KeyRank(TxIdOrder, a) > KeyRank(TxIdOrder, b)
        pos(a) == 1 + Cardinality({b \in S : after(b, a)})
        ids == [p \in 1..n |-> CHOOSE a \in S : pos(a) = p]
    IN  [p \in 1..Min2(n, RecentWindow) |-> txs[ids[p]]]

\* Table.bulkGet(keys): the record or undefined for each key, in their order
bulkGet(table, keys) ==
    [i \in DOMAIN keys |-> IF keys[i] \in Keys(table) THEN Some(table[keys[i]]) ELSE None]

\* part_001:101-117: the distinct ids are cut to `limit` before they are looked up
useRecentCategories(txs, cats, limit) ==
    LET recentTransactions == RecentTransactions(txs)
        categoryIds == Distinct([i \in DOMAIN recentTransactions |->
                                    recentTransactions[i].categoryId])
        limitedIds == SubSeq(categoryIds, 1, Min2(limit, Len(categoryIds)))
        found == SelectSeq(bulkGet(cats, limitedIds), IsSome)
    IN  [i \in DOMAIN found |-> Get(found[i])]

\* TransactionForm asks for 3 (part_004:24); the hook takes any limit
Limits == {1, 2, 3}

\* The distinct category ids of the window that resolve, most recent first
Resolvable(txs, cats) ==
    LET recent == RecentTransactions(txs)
    IN  SelectSeq(Distinct([i \in DOMAIN recent |-> recent[i].categoryId]),
                  LAMBDA id : id \in Keys(cats))

\* C17: recentCategories(limit) returns, in recency order over the window of the
\* most recently created non-deleted transactions, the first `limit` distinct
\* categories that resolve: ids that do not resolve are skipped, so with at
\* least `limit` resolvable ids in the window exactly `limit` categories are
\* returned, and none twice.
C17_RecentCategoriesSkipUnresolved ==
    \A limit \in Limits :
        LET result == useRecentCategories(transactions, categories, limit)
            ids == Resolvable(transactions, categories)
            firsts == SubSeq(ids, 1, Min2(limit, Len(ids)))
        IN  /\ result = [i \in DOMAIN firsts |-> categories[firsts[i]]]
            /\ Len(ids) >= limit => Len(result) = limit
            /\ \A i, j \in DOMAIN result : i # j => result[i].id # result[j].id

----------------------------------------------------------------------------
(* The list under a sort: three records, the sort select then changes       *)

\* SortOptions (types/index.ts:67-70), or no sort given
SortValues ==
    {None} \cup {Some(sort) : sort \in [field : {"date", "amount", "createdAt", "category"},
                                        direction : {"asc", "desc"}]}

\* Dashboard.setSort through TransactionFilters.onSortChange
\* (TransactionFilters.tsx:126-132); TransactionList passes an optional sort
setSort(sort) ==
    /\ ui' = [ui EXCEPT !.sort = sort]
    /\ UNCHANGED <<transactions, categories, settings, budgets, actionLogs, logSerial,
                   now, file, fault, pending, steps, last>>

SetSort == \E sort \in SortValues : setSort(sort)

\* The forms the sorted records come from: every sort key takes equal and
\* different values
SortInputs ==
    [amount : {100, 200, 300}, date : {IsoDate(2024, 2, 29), IsoDate(2024, 3, 1)},
     categoryId : TxCategoryIds, memo : {None}, type : {"expense"}]

\* The store after three createTransaction calls, on day 0 but for at most one
\* made on day RetentionDays + 1, and possibly softDeleteTransaction of the
\* third record
InitSort ==
    \E input \in [1..3 -> SortInputs], late \in 0..3, del \in BOOLEAN :
        LET created == [id \in {TxIdOrder[i] : i \in 1..3} |->
                           NewTransaction(id, input[KeyRank(TxIdOrder, id)],
                                          IF KeyRank(TxIdOrder, id) = late
                                          THEN RetentionDays + 1 ELSE 0)]
            end == RetentionDays + 1
            stored == IF del THEN UpdateTable(created, "t3", SoftDeleteChanges(end))
                      ELSE created
            order == SelectSeq(TxIdOrder, LAMBDA id : created[id].createdAt = 0)
                     \o SelectSeq(TxIdOrder, LAMBDA id : created[id].createdAt # 0)
            log == [i \in 1..3 |->
                       NewLog(i - 1, AddEvents("transaction", created[order[i]])[1],
                              created[order[i]].createdAt)]
        IN  /\ transactions = stored
            /\ categories = EmptyTable
            /\ settings = EmptyTable
            /\ budgets = EmptyTable
            /\ actionLogs \in LogAll(log, 3, IF del THEN UpdateEvents("transaction", created,
                                                           "t3", SoftDeleteChanges(end))
                                             ELSE <<>>, end)
            /\ logSerial = Len(actionLogs)
            /\ now = end
            /\ ui = [filters |-> NoFilters, sort |-> DefaultSort]
            /\ file = None
            /\ fault = NoFault
            /\ pending = <<>>
            /\ steps = Len(actionLogs)
            /\ last = [op |-> "init", arg |-> <<>>, pre |-> <<>>]

NextSort == SetSort

SpecSort == InitSort /\ [][NextSort]_vars

\* The amounts of a sequence of records
AmountsOf(seq) == [i \in DOMAIN seq |-> seq[i].amount]

\* The key the results are ordered by, and b's key being below a's
OrderedBy == IF IsSome(ui.sort) THEN Get(ui.sort).field ELSE "date"
Descending == IF IsSome(ui.sort) THEN Get(ui.sort).direction = "desc" ELSE TRUE
Below(a, b) == KeyLt(OrderedBy, SortKey(b, OrderedBy), SortKey(a, OrderedBy))

\* C18: listTransactions with a sort returns a permutation of the filtered set
\* in non-decreasing (asc) or non-increasing (desc) order of the chosen key;
\* amounts [300,100,200] give [100,200,300] ascending and [300,200,100]
\* descending; records with equal keys keep their retrieval order; with no sort
\* the order is by date, descending.
C18_SortedPermutationStableOnTies ==
    LET ids == FilteredIds(transactions, ui.filters)
        retrieved == [i \in DOMAIN ids |-> transactions[ids[i]]]
        results == useTransactions(transactions, ui.filters, ui.sort)
        rank(t) == CHOOSE i \in DOMAIN ids : ids[i] = t.id
    IN  /\ Len(results) = Len(retrieved)
        /\ {results[i] : i \in DOMAIN results} = {retrieved[i] : i \in DOMAIN retrieved}
        /\ \A i, j \in DOMAIN results :
              i < j => IF Descending THEN ~Below(results[j], results[i])
                       ELSE ~Below(results[i], results[j])
        /\ \A i, j \in DOMAIN results :
              (i < j /\ ~Below(results[i], results[j]) /\ ~Below(results[j], results[i]))
                  => rank(results[i]) < rank(results[j])
        /\ (AmountsOf(retrieved) = <<300, 100, 200>> /\ OrderedBy = "amount" /\ IsSome(ui.sort))
              => AmountsOf(results) = IF Descending THEN <<300, 200, 100>>
                                      ELSE <<100, 200, 300>>

\* The amounts 300, 100, 200 listed by amount, ascending
C18_Witness ==
    /\ ui.sort = Some([field |-> "amount", direction |-> "asc"])
    /\ AmountsOf(toArray(transactions, TxIdOrder)) = <<300, 100, 200>>
    /\ AmountsOf(useTransactions(transactions, ui.filters, ui.sort)) = <<100, 200, 300>>

----------------------------------------------------------------------------
(* Starting the app: useDatabase's initializer (part_001:192-205)           *)

\* initializeDatabase: await db.open(); await db.initializeDefaultData();
\* setIsInitialized(true). It calls nothing else.
initializeDatabase ==
    /\ settings' = IF Cardinality(Keys(settings)) = 0
                   THEN Put(settings, defaultSettings(now))
                   ELSE settings
    /\ Logged(<<>>)
    /\ Ran("initializeDatabase", [isInitialized |-> TRUE])
    /\ UNCHANGED <<transactions, categories, budgets, now, ui, file, pending>>

\* The app is started, used and left alone for a retention window, in any order
NextStartup ==
    \/ initializeDatabase
    \/ CreateExpense
    \/ SoftDeleteTransaction
    \/ Tick(RetentionDays + 1)

SpecStartup == InitEmpty /\ [][NextStartup]_vars

\* The initializer has completed, at the present time
Initialized == last.op = "initializeDatabase" /\ last.arg.isInitialized /\ now = last.pre.now

\* C19: the trash purge runs on the initialization path: once the initializer
\* has completed (isInitialized = true) no transaction whose deletedAt is older
\* than 30 days remains in the store, so starting the app is enough for a
\* soft-deleted transaction to be purged after its retention window.
C19_NoExpiredTransactionOnceInitialized ==
    Initialized => ExpiredIds(transactions, now) = {}

----------------------------------------------------------------------------
(* The purge called again: permanentlyDeleteOldTrash (database.ts:135-144)  *)

\* This step is a call of permanentlyDeleteOldTrash
PurgeStep == steps' # steps /\ last'.op = "permanentlyDeleteOldTrash"

\* The state is the one a call of permanentlyDeleteOldTrash left, the clock
\* not having moved since
JustPurged == last.op = "permanentlyDeleteOldTrash" /\ now = last.pre.now

\* C20: purgeExpired is idempotent: a second call in a row, at the same clock,
\* leaves the store as the first left it, and a call made when no transaction
\* has a deletedAt older than 30 days changes neither the transactions table
\* nor the action log.
C20_PurgeIsIdempotent ==
    [][PurgeStep =>
          /\ JustPurged =>
                UNCHANGED <<transactions, categories, settings, budgets, actionLogs>>
          /\ (\A id \in Keys(transactions) :
                  IsSome(transactions[id].deletedAt)
                      => Get(transactions[id].deletedAt) >= now - RetentionDays)
                => UNCHANGED <<transactions, actionLogs>>]_vars

\* A call that removed nothing, made at the clock of a call that removed a
\* record and logged it
C20_Witness ==
    /\ JustPurged
    /\ last.pre.transactions = transactions
    /\ last.pre.actionLogs = actionLogs
    /\ \E i \in DOMAIN actionLogs :
          actionLogs[i].action = "delete" /\ actionLogs[i].timestamp = now

----------------------------------------------------------------------------
(* Restore, field by field: restoreTransaction (database.ts:127-133)        *)

\* The last operation restored a stored, soft-deleted transaction
RestoredDeleted == RanOnTx("restoreTransaction") /\ IsSome(PreTx(last.arg.id).deletedAt)

\* C21: restore(id) on a soft-deleted transaction clears deletedAt, sets
\* updatedAt to the time of the call, leaves the other fields of the transaction
\* and every other transaction as they were, and appends a log entry with
\* action 'restore', entityType 'transaction' and entityId id.
C21_RestoreChangesTwoFieldsAndLogs ==
    RestoredDeleted =>
        LET id == last.arg.id
        IN  /\ Keys(transactions) = Keys(last.pre.transactions)
            /\ transactions[id].deletedAt = None
            /\ transactions[id].updatedAt = last.pre.now
            /\ \A f \in DOMAIN transactions[id] \ {"deletedAt", "updatedAt"} :
                  transactions[id][f] = PreTx(id)[f]
            /\ DOMAIN transactions[id] = DOMAIN PreTx(id)
            /\ \A other \in Keys(transactions) \ {id} : transactions[other] = PreTx(other)
            /\ Len(actionLogs) > Len(last.pre.actionLogs)
            /\ LET e == actionLogs[Len(actionLogs)]
               IN  /\ e.action = "restore"
                   /\ e.entityType = "transaction"
                   /\ e.entityId = id
                   /\ e.id > last.pre.logSerial

\* A transaction restored some time after it was soft-deleted, next to another
\* transaction
C21_Witness ==
    /\ RestoredDeleted
    /\ last.pre.now > PreTx(last.arg.id).updatedAt
    /\ Cardinality(Keys(transactions)) = 2

----------------------------------------------------------------------------
(* What the trim evicts: logAction (database.ts:63-75)                      *)

\* The entries the log held before the last operation and holds no more
Evicted ==
    {last.pre.actionLogs[i] : i \in DOMAIN last.pre.actionLogs}
        \ {actionLogs[i] : i \in DOMAIN actionLogs}

\* The number of entries the last operation's logAction calls inserted
Inserted == logSerial - last.pre.logSerial

----------------------------------------------------------------------------
(* Deleting a category: useDatabase.deleteCategory (part_001:249-259)       *)
(* called by CategoryList.confirmDelete (part_003:43-66)                    *)

\* The last operation deleted a stored category with a merge target
MergedAway == last.op = "deleteCategory" /\ IsSome(last.arg.mergeToId)

\* C23: after deleteCategory(id, mergeToId) the category id is gone, every
\* transaction that referenced id, soft-deleted or not, references mergeToId,
\* and the categoryId of every other transaction and all other categories are
\* as before.
C23_MergeMovesEveryTransaction ==
    MergedAway =>
        LET id == last.arg.id
            to == Get(last.arg.mergeToId)
            before == last.pre
        IN  /\ id \notin Keys(categories)
            /\ Keys(transactions) = Keys(before.transactions)
            /\ \A t \in Keys(transactions) :
                  transactions[t].categoryId =
                      IF before.transactions[t].categoryId = id THEN to
                      ELSE before.transactions[t].categoryId
            /\ Keys(categories) = Keys(before.categories) \ {id}
            /\ \A c \in Keys(categories) : categories[c] = before.categories[c]

\* A category merged away that had a soft-deleted transaction, next to a
\* transaction of another category
C23_Witness ==
    /\ MergedAway
    /\ \E t \in Keys(transactions) :
          /\ last.pre.transactions[t].categoryId = last.arg.id
          /\ IsSome(transactions[t].deletedAt)
          /\ transactions[t].categoryId = Get(last.arg.mergeToId)
    /\ \E t \in Keys(transactions) : last.pre.transactions[t].categoryId # last.arg.id

\* The last operation deleted a category with no merge target: the option
\* 'move to uncategorized' of the list (part_003:144), whose value is ''
DeletedAlone == last.op = "deleteCategory" /\ last.arg.mergeToId = None

\* C24: after deleteCategory(id) without a target every transaction that
\* referenced id references the value 'uncategorized', so that no transaction
\* carries the id of the deleted category.
C24_UnmergedTransactionsGoUncategorized ==
    DeletedAlone =>
        /\ \A t \in Keys(last.pre.transactions) :
              last.pre.transactions[t].categoryId = last.arg.id
                  => /\ t \in Keys(transactions)
                     /\ transactions[t].categoryId = "uncategorized"
        /\ \A t \in Keys(transactions) : transactions[t].categoryId # last.arg.id

----------------------------------------------------------------------------
(* deleteCategory one await at a time (part_001:249-259), either write of   *)
(* which the store may refuse                                               *)

\* Mutant: the rejection of an awaited write is swallowed
Swallowed(outcome) == "resolved"

\* await: the rejection of the awaited promise is thrown on to the caller
\* (part_001:252, 258; confirmDelete catches it, part_003:59-66)
Awaited(outcome) == outcome

\* CategoryList.confirmDelete calls deleteCategory (part_003:47)
startDeleteCategory(id, mergeToId) ==
    /\ pending = <<>>
    /\ steps < MaxSteps
    /\ steps' = steps + 1
    /\ pending' = <<[op |-> "deleteCategory",
                     pc |-> IF IsSome(mergeToId) THEN "modify" ELSE "delete",
                     id |-> id, mergeToId |-> mergeToId, pre |-> Store]>>
    /\ UNCHANGED <<transactions, categories, settings, budgets, actionLogs, logSerial,
                   now, ui, file, fault, last>>

\* deleteCategory returns or throws; `failed` names the write that was refused
Settle(job, failed) ==
    /\ pending' = <<>>
    /\ last' = [op |-> "deleteCategory",
                arg |-> [id |-> job.id, mergeToId |-> job.mergeToId, failed |-> failed,
                         caller |-> Awaited(IF failed = "none" THEN "resolved"
                                            ELSE "rejected")],
                pre |-> job.pre]

\* part_001:252-255: the modify, in one IndexedDB transaction of its own
deleteModify(job, refused) ==
    LET moved == CategoryTransactions(transactions, job.id)
        changes == [categoryId |-> Get(job.mergeToId)]
    IN  /\ job.pc = "modify"
        /\ IF refused
           THEN /\ UNCHANGED <<transactions, actionLogs, logSerial, fault>>
                /\ Settle(job, "modify")
           ELSE /\ transactions' = ModifyAll(transactions, moved, changes)
                /\ Appended(ModifyEvents("transaction", transactions, moved, changes))
                /\ Goto(job, "delete")
        /\ UNCHANGED categories

\* part_001:258
deleteDelete(job, refused) ==
    LET removed == IF job.id \in Keys(categories) THEN <<job.id>> ELSE <<>>
    IN  /\ job.pc = "delete"
        /\ IF refused
           THEN /\ UNCHANGED <<categories, actionLogs, logSerial, fault>>
                /\ Settle(job, "delete")
           ELSE /\ categories' = Remove(categories, {job.id})
                /\ Appended(DeleteEvents("category", categories, removed))
                /\ Settle(job, "none")
        /\ UNCHANGED transactions

\* The deleteCategory in flight goes on to its next await
deleteStep ==
    /\ pending # <<>>
    /\ pending[1].op = "deleteCategory"
    /\ \E refused \in BOOLEAN :
          \/ deleteModify(pending[1], refused)
          \/ deleteDelete(pending[1], refused)
    /\ UNCHANGED <<settings, budgets, now, ui, file, steps>>

\* part_003:37-47, 142-149: as DeleteCategory
StartDeleteCategory ==
    \E id \in Keys(categories) \cap DeleteTargets :
        LET others == SelectSeq(useCategories(categories), LAMBDA to : to # id)
        IN  \E mergeToId \in {None} \cup {Some(others[i]) : i \in DOMAIN others \cap {1}} :
                startDeleteCategory(id, mergeToId)

\* The ledger, with the delete one await at a time and nothing else started
\* while it runs
NextDelete ==
    \/ pending = <<>> /\ CreateLedgerTransaction
    \/ pending = <<>> /\ SoftDeleteTransaction
    \/ StartDeleteCategory
    \/ deleteStep

SpecDelete == InitLedger /\ [][NextDelete]_vars

\* The deleteCategory that is in flight or was the last operation to end, as
\* [id, mergeToId, pre]
Deletions ==
    (IF pending # <<>> THEN {[id |-> pending[1].id, mergeToId |-> pending[1].mergeToId,
                              pre |-> pending[1].pre]} ELSE {})
    \cup (IF pending = <<>> /\ last.op = "deleteCategory"
          THEN {[id |-> last.arg.id, mergeToId |-> last.arg.mergeToId, pre |-> last.pre]}
          ELSE {})

\* The transactions that referenced the category when deleteCategory was called
ToReassign(del) ==
    {t \in Keys(del.pre.transactions) : del.pre.transactions[t].categoryId = del.id}

\* C25: deleteCategory(id, mergeToId) is two writes with no rollback: when the
\* category delete fails after the reassignment, the caller sees the failure
\* and the store is left with the affected transactions under mergeToId and the
\* category still there; in no state is the category gone while a transaction
\* that was to be reassigned still references it.
C25_FailedDeleteKeepsCategoryAfterReassignment ==
    /\ (pending = <<>> /\ last.op = "deleteCategory" /\ IsSome(last.arg.mergeToId)
            /\ last.arg.failed = "delete")
          => /\ last.arg.caller = "rejected"
             /\ last.arg.id \in Keys(categories)
             /\ \A t \in ToReassign([id |-> last.arg.id, pre |-> last.pre]) :
                   transactions[t].categoryId = Get(last.arg.mergeToId)
    /\ \A del \in Deletions :
          (IsSome(del.mergeToId) /\ del.id \notin Keys(categories))
              => \A t \in ToReassign(del) : transactions[t].categoryId # del.id

\* The category delete was refused after a transaction had been moved
C25_Witness ==
    /\ pending = <<>>
    /\ last.op = "deleteCategory"
    /\ IsSome(last.arg.mergeToId)
    /\ last.arg.failed = "delete"
    /\ ToReassign([id |-> last.arg.id, pre |-> last.pre]) # {}

----------------------------------------------------------------------------
(* Importing the settings of a file: importData (database.ts:198-206)       *)

\* Snapshot files as a user can pick them (importData takes `data: any`): no
\* records but zero, one or two settings objects
SettingsFiles ==
    LET dark == Modify(defaultSettings(0), [theme |-> "dark"])
        usd == Modify(defaultSettings(0), [currency |-> "USD"])
    IN  {[version |-> 1, exportDate |-> 0,
          data |-> [transactions |-> <<>>, categories |-> <<>>, settings |-> entries,
                    budgets |-> <<>>]] : entries \in {<<>>, <<dark>>, <<dark, usd>>}}

\* The user picks a file to import
chooseFile(data) ==
    /\ file' = Some(data)
    /\ UNCHANGED <<transactions, categories, settings, budgets, actionLogs, logSerial,
                   now, ui, fault, pending, steps, last>>

ChooseFile == \E data \in SettingsFiles : chooseFile(data)

NextFiles ==
    \/ initializeDefaultData
    \/ UpdateSettings
    \/ ChooseFile
    \/ ImportData

SpecFiles == InitEmpty /\ [][NextFiles]_vars

\* C26: importData touches the settings table only when the snapshot holds
\* exactly one settings object: it then replaces the fields of the singleton if
\* there is one and inserts the object otherwise; a snapshot with no or with
\* more than one settings object leaves the settings table as it was.
C26_SettingsImportedOnlyFromOneObject ==
    last.op = "importData" =>
        LET entries == last.arg.data.data.settings
            before == last.pre.settings
        IN  IF Len(entries) = 1
            THEN settings = IF "main" \in Keys(before)
                            THEN [before EXCEPT !["main"] = Modify(before["main"], entries[1])]
                            ELSE Put(before, entries[1])
            ELSE settings = before

----------------------------------------------------------------------------
(* logAction one await at a time (database.ts:48-76): the hooks and         *)
(* restoreTransaction start it without awaiting it, so that the calls in    *)
(* flight take turns at their awaits                                        *)

\* The sequence without its i-th element
Drop(seq, i) == SubSeq(seq, 1, i - 1) \o SubSeq(seq, i + 1, Len(seq))

\* The logAction calls the events start, each with its log record built
\* (database.ts:54-61)
Started(evs) ==
    [i \in DOMAIN evs |->
        [op |-> "logAction", pc |-> "add", log |-> NewLog(logSerial + i - 1, evs[i], now),
         count |-> 0, ids |-> {}]]

\* db.restoreTransaction (database.ts:127-133) up to its return: the update is
\* awaited, the logAction of its hook and its own logAction are left running
restoreTransactionUnawaited(id) ==
    /\ steps < MaxSteps
    /\ steps' = steps + 1
    /\ transactions' = UpdateTable(transactions, id, RestoreChanges(now))
    /\ pending' = pending
                  \o Started(UpdateEvents("transaction", transactions, id, RestoreChanges(now))
                             \o <<RestoreEvent(id)>>)
    /\ logSerial' = logSerial + Len(pending') - Len(pending)
    /\ Ran("restoreTransaction", [id |-> id])
    /\ UNCHANGED <<categories, settings, budgets, actionLogs, now, ui, file, fault>>

\* database.ts:63: await this.actionLogs.add(log)
logAdd(i) ==
    /\ pending[i].pc = "add"
    /\ actionLogs' = Append(actionLogs, pending[i].log)
    /\ pending' = [pending EXCEPT ![i].pc = "count"]

\* database.ts:66-67: await this.actionLogs.count(), then the test
logCount(i) ==
    /\ pending[i].pc = "count"
    /\ pending' = IF Len(actionLogs) > MaxLogs
                  THEN [pending EXCEPT ![i].pc = "read", ![i].count = Len(actionLogs)]
                  ELSE Drop(pending, i)
    /\ UNCHANGED actionLogs

\* database.ts:68-73: orderBy('timestamp').limit(count - 500).toArray()
logRead(i) ==
    /\ pending[i].pc = "read"
    /\ \E ids \in OldestIds(actionLogs, Min2(pending[i].count - MaxLogs, Len(actionLogs))) :
           pending' = [pending EXCEPT ![i].pc = "delete", ![i].ids = ids]
    /\ UNCHANGED actionLogs

\* database.ts:74: await this.actionLogs.bulkDelete(idsToDelete)
logBulkDelete(i) ==
    /\ pending[i].pc = "delete"
    /\ actionLogs' = bulkDelete(actionLogs, pending[i].ids)
    /\ pending' = Drop(pending, i)

\* One of the logAction calls in flight goes on to its next await
logActionStep ==
    /\ \E i \in DOMAIN pending :
          /\ pending[i].op = "logAction"
          /\ \/ logAdd(i)
             \/ logCount(i)
             \/ logRead(i)
             \/ logBulkDelete(i)
    /\ UNCHANGED <<transactions, categories, settings, budgets, logSerial, now, ui, file,
                   fault, steps, last>>

RestoreTransactionUnawaited ==
    \E id \in Keys(transactions) : pending = <<>> /\ restoreTransactionUnawaited(id)

\* A transaction is created, soft-deleted and restored on top of a long past;
\* the logAction calls of the restore take turns
NextRace ==
    \/ pending = <<>> /\ CreateExpense
    \/ pending = <<>> /\ SoftDeleteTransaction
    \/ RestoreTransactionUnawaited
    \/ logActionStep

SpecRace == InitLog /\ [][NextRace]_vars

\* C27: logAction calls started without being awaited take turns at their
\* awaits; however they do, once all of them have finished the log holds
\* exactly min(500, number of entries ever inserted) entries: the trim never
\* evicts more than it takes to get back to 500.
C27_InterleavedTrimsLeaveTheCap ==
    pending = <<>> => Len(actionLogs) = Min2(MaxLogs, logSerial)

----------------------------------------------------------------------------
(* useDatabase mounted by several components: each runs its own initializer *)
(* (part_001:188-205), one await at a time                                  *)

\* Components that call useDatabase() (types/index.ts:122,
\* CategoryForm.tsx:39, part_003, part_004)
Components == {"Dashboard", "CategoryForm", "CategoryList"}

\* The component mounts: useEffect starts initializeDatabase (part_001:204)
mount(component) ==
    /\ \A i \in DOMAIN pending : pending[i].component # component
    /\ steps < MaxSteps
    /\ steps' = steps + 1
    /\ pending' = Append(pending, [op |-> "initializeDatabase", pc |-> "open",
                                   component |-> component, pre |-> Store])
    /\ UNCHANGED <<transactions, categories, settings, budgets, actionLogs, logSerial,
                   now, ui, file, fault, last>>

\* The initializer ends: setIsInitialized(true) (part_001:197), or the catch
\* with setError (part_001:198-201)
Ends(i, error) ==
    /\ pending' = Drop(pending, i)
    /\ last' = [op |-> "initializeDatabase",
                arg |-> [component |-> pending[i].component,
                         isInitialized |-> error = None, error |-> error],
                pre |-> pending[i].pre]

\* part_001:195: await db.open()
initOpen(i) ==
    /\ pending[i].pc = "open"
    /\ pending' = [pending EXCEPT ![i].pc = "count"]
    /\ UNCHANGED <<settings, last>>

\* database.ts:79-80: await this.settings.count(), then the test
initCount(i) ==
    /\ pending[i].pc = "count"
    /\ IF Cardinality(Keys(settings)) = 0
       THEN pending' = [pending EXCEPT ![i].pc = "add"] /\ UNCHANGED last
       ELSE Ends(i, None)
    /\ UNCHANGED settings

\* database.ts:91: await this.settings.add(defaultSettings); the add of a key
\* that is taken rejects with a ConstraintError
initAdd(i) ==
    /\ pending[i].pc = "add"
    /\ IF "main" \in Keys(settings)
       THEN UNCHANGED settings /\ Ends(i, Some("ConstraintError"))
       ELSE settings' = Put(settings, defaultSettings(now)) /\ Ends(i, None)

\* One of the initializers in flight goes on to its next await
initializerStep ==
    /\ \E i \in DOMAIN pending :
          /\ pending[i].op = "initializeDatabase"
          /\ \/ initOpen(i)
             \/ initCount(i)
             \/ initAdd(i)
    /\ UNCHANGED <<transactions, categories, budgets, actionLogs, logSerial, now, ui, file,
                   fault, steps>>

Mount == \E component \in Components : mount(component)

NextMount ==
    \/ Mount
    \/ initializerStep
    \/ pending = <<>> /\ UpdateSettings

SpecMount == InitEmpty /\ [][NextMount]_vars

\* C28: every mounted component that calls useDatabase() runs its own
\* initializer; when several run side by side on an empty store each of them
\* ends with isInitialized = true and error = null, and exactly one Settings
\* record exists afterwards.
C28_EveryInitializerSucceeds ==
    last.op = "initializeDatabase" =>
        /\ last.arg.isInitialized
        /\ last.arg.error = None
        /\ pending = <<>> => ExactlyOneSettings

----------------------------------------------------------------------------
(* The order of the categories: CategoryForm (CategoryForm.tsx:122-130),    *)
(* CategoryList.handleDrop (part_003:84-121), deleteCategory                *)

\* part_003:91-94: the list with the dragged category moved to targetIndex
\* (indices from 1)
Moved(list, sourceIndex, targetIndex) ==
    LET rest == Drop(list, sourceIndex)
    IN  SubSeq(rest, 1, targetIndex - 1) \o <<list[sourceIndex]>>
        \o SubSeq(rest, targetIndex, Len(rest))

\* part_003:98-102: updateCategory(id, {order: i + 1}) for each category of the
\* new list whose order is not its position, one after the other
RECURSIVE Reordered(_, _, _, _)
Reordered(cats, list, i, ts) ==
    IF i > Len(list) THEN cats
    ELSE Reordered(IF cats[list[i]].order # i
                   THEN UpdateTable(cats, list[i], [order |-> i, updatedAt |-> ts])
                   ELSE cats,
                   list, i + 1, ts)

RECURSIVE ReorderEvents(_, _, _, _)
ReorderEvents(cats, list, i, ts) ==
    IF i > Len(list) THEN <<>>
    ELSE IF cats[list[i]].order # i
    THEN UpdateEvents("category", cats, list[i], [order |-> i, updatedAt |-> ts])
         \o ReorderEvents(UpdateTable(cats, list[i], [order |-> i, updatedAt |-> ts]),
                          list, i + 1, ts)
    ELSE ReorderEvents(cats, list, i + 1, ts)

\* CategoryList.handleDrop (part_003:84-121), run to its end
handleDrop(sourceIndex, targetIndex) ==
    LET list == useCategories(categories)
        newCategories == Moved(list, sourceIndex, targetIndex)
    IN  /\ sourceIndex # targetIndex
        /\ categories' = Reordered(categories, newCategories, 1, now)
        /\ Logged(ReorderEvents(categories, newCategories, 1, now))
        /\ Ran("handleDrop", [sourceIndex |-> sourceIndex, targetIndex |-> targetIndex])
        /\ UNCHANGED <<transactions, settings, budgets, now, ui, file, pending>>

HandleDrop ==
    \E sourceIndex, targetIndex \in 1..Cardinality(Keys(categories)) :
        handleDrop(sourceIndex, targetIndex)

NextOrder ==
    \/ SubmitPlainForm
    \/ DeleteCategory
    \/ HandleDrop

SpecOrder == InitEmpty /\ [][NextOrder]_vars

\* C29: after any sequence of category creations through the form, category
\* deletions and completed drag-and-drop reorders, no two categories of the
\* store have the same order value.
C29_OrderValuesAreDistinct ==
    \A a \in Keys(categories), b \in Keys(categories) :
        a # b => categories[a].order # categories[b].order

----------------------------------------------------------------------------
(* softDeleteTransaction called again (database.ts:117-125)                 *)

\* deleteTransaction(id) for any id, stored or not
SoftDeleteAny == \E id \in TxIds : softDeleteTransaction(id)

NextRepeat ==
    \/ CreateExpense
    \/ SoftDeleteAny
    \/ RestoreTransaction
    \/ Tick(RetentionDays + 1)

SpecRepeat == InitEmpty /\ [][NextRepeat]_vars

\* C30: the retention window is measured from the first soft delete:
\* softDelete(id) on a transaction that is soft-deleted already leaves its
\* deletedAt as it is, and softDelete(id) on an id that is not in the store
\* changes nothing and appends no audit entry.
C30_SoftDeleteKeepsFirstDeletedAt ==
    last.op = "softDeleteTransaction" =>
        IF last.arg.id \in Keys(last.pre.transactions)
        THEN IsSome(PreTx(last.arg.id).deletedAt)
                => transactions[last.arg.id].deletedAt = PreTx(last.arg.id).deletedAt
        ELSE /\ transactions = last.pre.transactions
             /\ actionLogs = last.pre.actionLogs

====
